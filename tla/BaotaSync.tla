----------------------------- MODULE BaotaSync -----------------------------
(***************************************************************************)
(* Publication of managed Ingresses on the Baota panel: RunBaotaIngressSync *)
(* (baota_sync_run.go), its three triggers (syncer.go, watcher.go and       *)
(* baota_sync_handlers.go) and the deletion of an Ingress with its site     *)
(* (web.go, baota_delete.go).  A pod runs at most one sync at a time; the   *)
(* Leader's are started by a timer and by the informer, any pod's by hand.  *)
(*                                                                         *)
(* A domain stands for one rule of one managed Ingress.  Cluster, panel and *)
(* credentials are configured, so the early "not configured" returns do not *)
(* occur, and SyncEnabled does not change while the pods run.               *)
(***************************************************************************)
EXTENDS Naturals, FiniteSets

CONSTANTS
    Domains, Pods, Leader,
    Attempts,           \* POSTs per panel step (4 in baotaSyncRetryDelays)
    DeleteRetries,      \* background retries of a failed deletion (3)
    MaxFaults,          \* bound on failed calls, cancelled requests and crashes
    SyncEnabled,        \* ingressBaotaSyncEnabled
    EnglishPanel        \* does the panel say "not exist" of a missing site?

ASSUME PodAssumption == Leader \in Pods
ASSUME RetryAssumption ==
    Attempts \in Nat \ {0} /\ DeleteRetries \in Nat /\ MaxFaults \in Nat

VARIABLES
    ingress,    \* the domains that have a managed Ingress
    site, proxy,\* the domains that have a site, and a reverse proxy, on the panel
    run,        \* per pod, its RunBaotaIngressSync
    pending,    \* a change waits in the watcher's channel or for its debounce timer
    report,     \* the report in PlatformKV; "spoiled" is history: deleted since
    del,        \* per domain, the deletion of its site
    faults,
    clean,      \* history: deleted while no run had the domain on its list
    disturbed   \* history, per pod: deleted since the pod's run turned to it

panel == <<site, proxy>>
history == <<clean, disturbed>>
vars == <<ingress, panel, run, pending, report, del, faults, history>>

Nothing == [at |-> "idle", todo |-> {}, cur |-> {}, tries |-> 0, good |-> TRUE,
            ok |-> {}, cancelled |-> FALSE]
NoDelete == [at |-> "none", left |-> 0, by |-> Leader]

TypeOK ==
    /\ ingress \subseteq Domains /\ site \subseteq Domains /\ proxy \subseteq Domains
    /\ run \in [Pods -> [at : {"idle", "list", "next", "site", "proxy", "record"},
                         todo : SUBSET Domains, cur : SUBSET Domains,
                         tries : 0..Attempts - 1, good : BOOLEAN,
                         ok : SUBSET Domains, cancelled : BOOLEAN]]
    /\ pending \in BOOLEAN
    /\ report \in [running : BOOLEAN, ok : SUBSET Domains, spoiled : SUBSET Domains]
    /\ del \in [Domains -> [at : {"none", "proxy", "site"}, left : 0..DeleteRetries,
                            by : Pods]]
    /\ faults \in 0..MaxFaults
    /\ clean \subseteq Domains /\ disturbed \in [Pods -> SUBSET Domains]

Init ==
    /\ ingress = {} /\ site = {} /\ proxy = {}
    /\ run = [p \in Pods |-> Nothing]
    /\ pending = FALSE
    /\ report = [running |-> FALSE, ok |-> {}, spoiled |-> {}]
    /\ del = [d \in Domains |-> NoDelete]
    /\ faults = 0
    /\ clean = {} /\ disturbed = [p \in Pods |-> {}]

Fault == faults < MaxFaults /\ faults' = faults + 1

-----------------------------------------------------------------------------
(* The Ingress and the triggers.                                            *)

Apply(d) ==
    /\ d \notin ingress
    /\ ingress' = ingress \cup {d}
    /\ pending' = TRUE
    /\ clean' = clean \ {d}
    /\ UNCHANGED <<panel, run, report, del, faults, disturbed>>

\* Mutant: an informer without a resync period.
ResyncOff ==
    /\ FALSE /\ pending' = TRUE
    /\ UNCHANGED <<ingress, panel, run, report, del, faults, history>>

\* The informer's 10-minute resync repeats an update of every Ingress.
Resync ==
    /\ ingress # {} /\ ~pending
    /\ pending' = TRUE
    /\ UNCHANGED <<ingress, panel, run, report, del, faults, history>>

Entry(p, running, ok) == [running |-> running, ok |-> ok, spoiled |-> disturbed[p]]

\* persistBaotaIngressSyncReport: a failed Set is only logged.
Persist(p, running, ok) ==
    \/ report' = Entry(p, running, ok) /\ UNCHANGED faults
    \/ Fault /\ UNCHANGED report

\* TryLock: a trigger that finds a run in progress is dropped.
Enter(p) ==
    IF run[p].at = "idle"
    THEN run' = [run EXCEPT ![p].at = "list"] /\ Persist(p, TRUE, {})
    ELSE UNCHANGED <<run, report, faults>>

TimerRun ==
    /\ SyncEnabled /\ Enter(Leader)
    /\ UNCHANGED <<ingress, panel, pending, del, history>>

WatcherRun ==
    /\ pending /\ pending' = FALSE
    /\ Enter(Leader)
    /\ UNCHANGED <<ingress, panel, del, history>>

ManualRun(p) ==
    /\ run[p].at = "idle" /\ Enter(p)
    /\ UNCHANGED <<ingress, panel, pending, del, history>>

-----------------------------------------------------------------------------
(* One run.                                                                 *)

\* Mutant: the last report of a run is not written.
LeaveUnreported(p, ok) == run' = [run EXCEPT ![p] = Nothing] /\ UNCHANGED <<report, faults>>

Leave(p, ok) == run' = [run EXCEPT ![p] = Nothing] /\ Persist(p, FALSE, ok)

\* Mutant: what the last report published is synced again.
ListWithReported(p) ==
    /\ run[p].at = "list" /\ ~run[p].cancelled
    /\ run' = [run EXCEPT ![p].at = "next", ![p].todo = ingress \cup report.ok]
    /\ UNCHANGED <<ingress, panel, pending, report, del, faults, history>>

List(p) ==
    /\ run[p].at = "list" /\ ~run[p].cancelled
    /\ run' = [run EXCEPT ![p].at = "next", ![p].todo = ingress]
    /\ UNCHANGED <<ingress, panel, pending, report, del, faults, history>>

ListFails(p) ==
    /\ run[p].at = "list"
    /\ \/ run[p].cancelled /\ Leave(p, {})
       \/ Fault /\ run' = [run EXCEPT ![p] = Nothing] /\ report' = Entry(p, FALSE, {})
    /\ UNCHANGED <<ingress, panel, pending, del, history>>

NextDomain(p, d) ==
    /\ run[p].at = "next" /\ d \in run[p].todo /\ ~run[p].cancelled
    /\ run' = [run EXCEPT ![p].at = "site", ![p].todo = @ \ {d}, ![p].cur = {d},
                          ![p].tries = 0, ![p].good = TRUE]
    /\ disturbed' = [disturbed EXCEPT ![p] = @ \ {d}]
    /\ UNCHANGED <<ingress, panel, pending, report, del, faults, clean>>

Finish(p) ==
    /\ run[p].at = "next" /\ (run[p].todo = {} \/ run[p].cancelled)
    /\ Leave(p, run[p].ok)
    /\ UNCHANGED <<ingress, panel, pending, del, history>>

\* One POST of baotaPOSTWithRetry is answered: the step is done, or it is tried
\* again, or it has failed for good and the run goes on with the next one.
Moves(p, next, good) ==
    run' = [run EXCEPT ![p].at = next, ![p].tries = 0, ![p].good = @ /\ good]

Refused(p, next) ==
    IF run[p].tries + 1 < Attempts
    THEN run' = [run EXCEPT ![p].tries = @ + 1]
    ELSE Moves(p, next, FALSE)

\* Mutant: a cancelled wait counts as success.
StopsRetryingContent(p, next) ==
    /\ run[p].tries > 0 /\ run[p].cancelled
    /\ Moves(p, next, TRUE)

\* A retry first waits, and the wait ends when the context does.
StopsRetrying(p, next) ==
    /\ run[p].tries > 0 /\ run[p].cancelled
    /\ Moves(p, next, FALSE)

\* AddSite answers success or "already exists"; a lost answer may hide a success.
AddSite(p) ==
    /\ run[p].at = "site"
    /\ \/ site' = site \cup run[p].cur /\ Moves(p, "proxy", TRUE) /\ UNCHANGED faults
       \/ Fault /\ Refused(p, "proxy") /\ site' \in {site, site \cup run[p].cur}
       \/ StopsRetrying(p, "proxy") /\ UNCHANGED <<site, faults>>
    /\ UNCHANGED <<ingress, proxy, pending, report, del, history>>

\* interpretBaotaJSONBody takes any message with "exist" in it for "already exists".
TakenForExisting(p) == EnglishPanel /\ ~run[p].cur \subseteq site

CreateProxy(p) ==
    /\ run[p].at = "proxy"
    /\ \/ run[p].cur \subseteq site /\ proxy' = proxy \cup run[p].cur
          /\ Moves(p, "record", TRUE) /\ UNCHANGED faults
       \/ TakenForExisting(p) /\ Moves(p, "record", TRUE) /\ UNCHANGED <<proxy, faults>>
       \/ ~run[p].cur \subseteq site /\ ~EnglishPanel
          /\ Refused(p, "record") /\ UNCHANGED <<proxy, faults>>
       \/ Fault /\ Refused(p, "record") /\ proxy' \in {proxy, proxy \cup (run[p].cur \cap site)}
       \/ StopsRetrying(p, "record") /\ UNCHANGED <<proxy, faults>>
    /\ UNCHANGED <<ingress, site, pending, report, del, history>>

(* The domain's entry in the report.  The HTTPS step changes nothing that   *)
(* is modelled: if it fails, it only spoils the result.                     *)
Done(p) == run[p].ok \cup IF run[p].good THEN run[p].cur ELSE {}

Enters(p, ok) == run' = [run EXCEPT ![p].at = "next", ![p].cur = {}, ![p].ok = ok]

Record(p) ==
    /\ run[p].at = "record"
    /\ \/ Enters(p, Done(p)) /\ Persist(p, TRUE, Done(p))
       \/ Enters(p, run[p].ok) /\ Fault /\ report' \in {report, Entry(p, TRUE, run[p].ok)}
    /\ UNCHANGED <<ingress, panel, pending, del, history>>

\* The client of a manual run goes away.
Cancel(p) ==
    /\ run[p].at # "idle" /\ ~run[p].cancelled /\ Fault
    /\ run' = [run EXCEPT ![p].cancelled = TRUE]
    /\ UNCHANGED <<ingress, panel, pending, report, del, history>>

-----------------------------------------------------------------------------
(* Deletion of an Ingress, with or without its site; one deletion of a      *)
(* domain at a time.                                                        *)

DeleteIngress(d, p, withSite) ==
    /\ d \in ingress /\ del[d].at = "none"
    /\ ingress' = ingress \ {d}
    /\ pending' = TRUE
    /\ del' = IF withSite
              THEN [del EXCEPT ![d] = [at |-> "proxy", left |-> DeleteRetries, by |-> p]]
              ELSE del
    /\ UNCHANGED <<panel, run, report, faults, history>>

Disturb(d) ==
    /\ disturbed' = [p \in Pods |-> disturbed[p] \cup {d}]
    /\ report' = [report EXCEPT !.spoiled = @ \cup {d}]

\* A failure of removeBaotaProxy does not keep the site.
RemoveProxy(d) ==
    /\ del[d].at = "proxy"
    /\ \/ proxy' = proxy \ {d} /\ UNCHANGED faults
       \/ Fault /\ UNCHANGED proxy
    /\ del' = [del EXCEPT ![d].at = "site"]
    /\ Disturb(d)
    /\ UNCHANGED <<ingress, site, run, pending, clean>>

\* Does some run still hold the domain on its list?
Listed(d) == \E p \in Pods : d \in run[p].todo \cup run[p].cur

DeleteSite(d) ==
    /\ del[d].at = "site"
    /\ site' = site \ {d} /\ proxy' = proxy \ {d}
    /\ del' = [del EXCEPT ![d] = NoDelete]
    /\ clean' = IF d \in ingress \/ Listed(d) THEN clean ELSE clean \cup {d}
    /\ Disturb(d)
    /\ UNCHANGED <<ingress, run, pending, faults>>

DeleteSiteFails(d) ==
    /\ del[d].at = "site" /\ Fault
    /\ del' = [del EXCEPT ![d] = IF @.left = 0 THEN NoDelete
                                 ELSE [at |-> "proxy", left |-> @.left - 1, by |-> @.by]]
    /\ \/ site' = site \ {d} /\ proxy' = proxy \ {d} /\ Disturb(d)
       \/ UNCHANGED <<panel, report, disturbed>>
    /\ UNCHANGED <<ingress, run, pending, clean>>

\* The process dies with its run and its deletions; a new Leader's informer
\* reports every Ingress as added.
Crash(p) ==
    /\ Fault
    /\ run' = [run EXCEPT ![p] = Nothing]
    /\ del' = [d \in Domains |-> IF del[d].by = p THEN NoDelete ELSE del[d]]
    /\ pending' = IF p = Leader THEN ingress # {} ELSE pending
    /\ UNCHANGED <<ingress, panel, report, history>>

RunStep(p) ==
    \/ List(p) \/ ListFails(p) \/ Finish(p) \/ AddSite(p) \/ CreateProxy(p) \/ Record(p)
    \/ \E d \in Domains : NextDomain(p, d)

DeleteStep(d) == RemoveProxy(d) \/ DeleteSite(d) \/ DeleteSiteFails(d)

Next ==
    \/ Resync \/ TimerRun \/ WatcherRun
    \/ \E p \in Pods : RunStep(p) \/ ManualRun(p) \/ Cancel(p) \/ Crash(p)
    \/ \E d \in Domains :
         \/ Apply(d) \/ DeleteStep(d)
         \/ \E p \in Pods, withSite \in BOOLEAN : DeleteIngress(d, p, withSite)

Spec == Init /\ [][Next]_vars

\* The handler's calls have timeouts, so a run and a deletion go on; the informer's
\* resync comes back for ever.  No user has to do anything, and nothing is expected
\* of the timer, which a setting may have switched off.
Fairness ==
    /\ WF_vars(WatcherRun) /\ WF_vars(Resync)
    /\ \A p \in Pods : WF_vars(RunStep(p))
    /\ \A d \in Domains : WF_vars(DeleteStep(d))

FairSpec == Spec /\ Fairness

-----------------------------------------------------------------------------
\* A domain the report calls OK has its site and its proxy, unless somebody
\* deleted them after the reporting run had turned to the domain.
ReportTruthful ==
    \A d \in report.ok \ report.spoiled : d \in site /\ d \in proxy

\* A site deleted together with its Ingress stays away for ever when no run had
\* the domain on its list at that moment: no later run brings it back.
NoResurrection == clean \cap site = {}

\* A domain whose Ingress stays is published in the end and stays so, whatever
\* calls failed, triggers were dropped or late deletions came in between.
Published ==
    \A d \in Domains : <>[](d \in ingress) => <>[](d \in site /\ d \in proxy)

\* The status page never shows a run for ever: also after a crash the report
\* leaves "running" as long as there is an Ingress to sync.
ReportSettles == []<>(report.running => ingress = {})

\* The claim of baota.go:238: a reply read as "already exists" means that the
\* site or proxy is there, so the sync may ignore it.
ExistsMeansExists ==
    [][\A p \in Pods : run[p].at = "proxy" /\ TakenForExisting(p) /\ CreateProxy(p)
         => ~run'[p].good \/ run[p].cur \subseteq proxy']_vars
=============================================================================
