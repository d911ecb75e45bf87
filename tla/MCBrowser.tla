----------------------------- MODULE MCBrowser -----------------------------
(* An instance for TLC of the console's parts in the browser, which do not  *)
(* touch each other's state.  A behaviour is one of them, chosen at the     *)
(* start; the others stay as they are.                                      *)
EXTENDS ApiGate, SignIn, ViewTerminal, CloudVmTerminal, CapturePanel, DocEditor, PageQueries,
        PageTables

CONSTANTS r1, r2, r3, r4, alice, bob, text, drawing, sketch

VARIABLE focus

browserVars == <<gateVars, signInVars, viewVars, sheetVars, panelVars, docVars, pageVars, focus>>

\* All that the steps of PageQueries see of a page and of a query: two pages, and two queries,
\* that look the same behave the same, and one of each is enough.
PageLooks(p, q) ==
    <<q \in DOMAIN Panels[p].reads,
      {<<Changes(p, name, q), q \in Panels[p].does[name].refreshes,
         <<<<p, name>>, q>> \in Forgotten>> :
         name \in {n \in DOMAIN Panels[p].does :
                     Changes(p, n, q) \/ q \in Panels[p].does[n].refreshes}}>>
QueryLooks(q) == <<q \in Cached, Told[q] \cap Hot # {}, {PageLooks(p, q) : p \in Pages}>>

SomePages ==
    [q \in Queries |-> {CHOOSE p \in Pages : PageLooks(p, q) = looks :
                          looks \in {PageLooks(p, q) : p \in Pages}}]
SomeQueries ==
    {CHOOSE q \in Queries : QueryLooks(q) = looks : looks \in {QueryLooks(q) : q \in Queries}}

BrowserInit ==
    /\ GateInit /\ SignInInit /\ ViewInit /\ SheetInit /\ PanelInit /\ DocsInit /\ PageInit
    /\ focus \in {"gate", "signin", "others", "view", "sheet", "panel", "docs", "pages"}
    /\ focus # "docs" => route = text
    /\ query \in IF focus = "pages" THEN SomeQueries ELSE {"docs-media"}

\* A tab has either several requests for its status on their way, or others that act more
\* than once.  It can do without the last slot, since the requests before it come back.
SeveralStatuses == turns' < MaxTurns
SeveralTurns == statuses'[MaxStatuses] = "none"

\* Of a capture after the first one line less is seen, and that it failed.
LaterCaptures ==
    \A c \in Captures \ {1} : seq'[c] < MaxLines /\ ended'[c] \in {"none", "error"}

\* A canvas is told again only if the body differs, one late timer is on its way at a time,
\* and the second drawing's caches see only this tab.
QuietDocs ==
    /\ drawn' # {} => drawn' = drawn \/ scene' # scene \/ scene # {body}
    /\ Cardinality(timers') <= 1
    /\ sketch \in stale' => sketch \in stale \/ save' # save
    /\ fetch' = fetch => fills' \ fills \subseteq {text, drawing} \X Bodies
    /\ redis[sketch] # {} => redis'[sketch] # {} \/ save' # save

\* Nothing is claimed of a panel with a hole, of an editor that was hasty or of a tab that is
\* excused and was not sent away, and an editor behind a cache makes one edit less: their
\* further steps are left out.
BrowserNext ==
    /\ \/ /\ focus = "gate" /\ GateNext
          /\ UNCHANGED <<signInVars, viewVars, sheetVars, panelVars, docVars, pageVars>>
       \/ /\ focus = "signin" /\ (excused => sent) /\ SignInNext /\ SeveralStatuses
          /\ UNCHANGED <<gateVars, viewVars, sheetVars, panelVars, docVars, pageVars>>
       \/ /\ focus = "others" /\ (excused => sent) /\ SignInNext /\ SeveralTurns
          /\ UNCHANGED <<gateVars, viewVars, sheetVars, panelVars, docVars, pageVars>>
       \/ /\ focus = "view" /\ ViewNext
          /\ UNCHANGED <<gateVars, signInVars, sheetVars, panelVars, docVars, pageVars>>
       \/ /\ focus = "sheet" /\ SheetNext
          /\ UNCHANGED <<gateVars, signInVars, viewVars, panelVars, docVars, pageVars>>
       \/ /\ focus = "panel" /\ ~holed /\ PanelNext /\ LaterCaptures
          /\ UNCHANGED <<gateVars, signInVars, viewVars, sheetVars, docVars, pageVars>>
       \/ /\ focus = "docs" /\ ~hasty /\ (behind => edits < MaxEdits) /\ DocsNext /\ QuietDocs
          /\ UNCHANGED <<gateVars, signInVars, viewVars, sheetVars, panelVars, pageVars>>
       \/ /\ focus = "pages" /\ PageNext /\ page' \in SomePages[query] \union {Elsewhere}
          /\ UNCHANGED <<gateVars, signInVars, viewVars, sheetVars, panelVars, docVars>>
    /\ UNCHANGED focus

BrowserFairness ==
    /\ WF_signInVars(focus \in {"signin", "others"} /\ Tab)
    /\ WF_signInVars(focus \in {"signin", "others"} /\ LoginFinishes)
    /\ \A u \in Users : WF_signInVars(focus \in {"signin", "others"} /\ ClearSession(u))
    /\ WF_signInVars(focus \in {"signin", "others"} /\ RolloutEnds)

BrowserSpec == BrowserInit /\ [][BrowserNext]_browserVars /\ BrowserFairness

\* Only the tab that signs in.
LoopSpec == BrowserInit /\ focus = "signin" /\ [][BrowserNext]_browserVars /\ BrowserFairness

BrowserTypeOK ==
    /\ GateTypeOK /\ SignInTypeOK /\ ViewTypeOK /\ SheetTypeOK /\ PanelTypeOK /\ DocsTypeOK
    /\ PageTypeOK
=============================================================================
