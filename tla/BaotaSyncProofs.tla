--------------------------- MODULE BaotaSyncProofs ---------------------------
(***************************************************************************)
(* What the sync promises about the panel, for any number of domains, pods *)
(* and failed calls.                                                       *)
(***************************************************************************)
EXTENDS BaotaSync, TLAPS

USE PodAssumption, RetryAssumption

Runs == [at : {"idle", "list", "next", "site", "proxy", "record"},
         todo : SUBSET Domains, cur : SUBSET Domains,
         tries : 0..Attempts - 1, good : BOOLEAN,
         ok : SUBSET Domains, cancelled : BOOLEAN]
Reports == [running : BOOLEAN, ok : SUBSET Domains, spoiled : SUBSET Domains]

Deletes == [at : {"none", "proxy", "site"}, left : 0..DeleteRetries, by : Pods]

\* No deletion is the record of one.
LEMMA NoDeleteType == NoDelete \in Deletes
  BY DEF NoDelete, Deletes

\* A run that lists is a run.
LEMMA SetAtType ==
  ASSUME run \in [Pods -> Runs], NEW p \in Pods, run' = [run EXCEPT ![p].at = "list"]
  PROVE  run' \in [Pods -> Runs]
<1>1. [run[p] EXCEPT !.at = "list"] \in Runs
  BY DEF Runs
<1>2. QED
  BY <1>1

\* A retry has one deletion less left.
LEMMA RetryType ==
  ASSUME NEW e \in Deletes, e.left # 0
  PROVE  [at |-> "proxy", left |-> e.left - 1, by |-> e.by] \in Deletes
  BY DEF Deletes

\* What the steps of a run edit in it leaves a run.
LEMMA EditTypes ==
  ASSUME NEW r \in Runs
  PROVE  /\ \A S \in SUBSET Domains : [r EXCEPT !.at = "next", !.todo = S] \in Runs
         /\ \A S \in SUBSET Domains : [r EXCEPT !.at = "next", !.cur = {}, !.ok = S] \in Runs
         /\ [r EXCEPT !.cancelled = TRUE] \in Runs
<1>1. \A S \in SUBSET Domains : [r EXCEPT !.at = "next", !.todo = S] \in Runs
  BY DEF Runs
<1>2. \A S \in SUBSET Domains : [r EXCEPT !.at = "next", !.cur = {}, !.ok = S] \in Runs
  <2>1. {} \in SUBSET Domains
    OBVIOUS
  <2>2. QED
    BY <2>1, Zenon DEF Runs
<1>3. [r EXCEPT !.cancelled = TRUE] \in Runs
  BY DEF Runs
<1>4. QED
  BY <1>1, <1>2, <1>3

\* A pod that does nothing has a run's record.
LEMMA NothingType == Nothing \in Runs
  BY DEF Nothing, Runs

\* What a pod reports is a report.
LEMMA EntryType ==
  ASSUME disturbed \in [Pods -> SUBSET Domains], NEW p \in Pods,
         NEW running \in BOOLEAN, NEW ok \in SUBSET Domains
  PROVE  Entry(p, running, ok) \in Reports
  BY DEF Entry, Reports

\* A fault stays within its bound.
LEMMA FaultType == ASSUME Fault, faults \in 0..MaxFaults PROVE faults' \in 0..MaxFaults
  BY DEF Fault

\* Storing a report, or failing to, keeps the types.
LEMMA PersistType ==
  ASSUME TypeOK, NEW p \in Pods, NEW running \in BOOLEAN, NEW ok \in SUBSET Domains,
         Persist(p, running, ok)
  PROVE  report' \in Reports /\ faults' \in 0..MaxFaults
  BY EntryType, FaultType DEF TypeOK, Persist, Reports

\* A call that is done leads to the next one of the same run.
LEMMA MovesType ==
  ASSUME run \in [Pods -> Runs], NEW p \in Pods, NEW next \in {"proxy", "record"},
         NEW good \in BOOLEAN, Moves(p, next, good)
  PROVE  run' \in [Pods -> Runs]
<1>1. /\ run[p] \in Runs /\ 0 \in 0..Attempts - 1
      /\ (run[p].good /\ good) \in BOOLEAN
  BY DEF Runs
<1>2. [run[p] EXCEPT !.at = next, !.tries = 0, !.good = @ /\ good] \in Runs
  BY <1>1 DEF Runs
<1>3. QED
  BY <1>2 DEF Moves

\* A call that is refused is tried again or passed over.
LEMMA RefusedType ==
  ASSUME run \in [Pods -> Runs], NEW p \in Pods, NEW next \in {"proxy", "record"},
         Refused(p, next)
  PROVE  run' \in [Pods -> Runs]
<1>1. CASE run[p].tries + 1 < Attempts
  <2>1. run[p].tries + 1 \in 0..Attempts - 1
    BY <1>1 DEF Runs
  <2>2. QED
    BY <1>1, <2>1 DEF Refused, Runs
<1>2. QED
  BY <1>1, MovesType DEF Refused

(* Every variable keeps its type.                                           *)
THEOREM TypeCorrect == Spec => []TypeOK
<1>1. Init => TypeOK
  <2> SUFFICES ASSUME Init PROVE TypeOK
    OBVIOUS
  <2>1. run \in [Pods -> Runs]
    BY NothingType DEF Init
  <2>2. del \in [Domains -> [at : {"none", "proxy", "site"}, left : 0..DeleteRetries, by : Pods]]
    BY DEF Init, NoDelete
  <2>3. report \in Reports
    BY Zenon DEF Init, Reports
  <2>4. QED
    <3>1. faults \in 0..MaxFaults
      BY DEF Init
    <3>2. QED
      BY <2>1, <2>2, <2>3, <3>1, Zenon DEF Init, TypeOK, Runs, Reports
<1>2. TypeOK /\ [Next]_vars => TypeOK'
  <2> SUFFICES ASSUME TypeOK, [Next]_vars PROVE TypeOK'
    OBVIOUS
  <2> USE DEF TypeOK, panel, history
  <2>0. /\ run \in [Pods -> Runs] /\ report \in Reports
    BY DEF Runs, Reports
  <2>1. ASSUME NEW p \in Pods, Enter(p)
        PROVE  run' \in [Pods -> Runs] /\ report' \in Reports /\ faults' \in 0..MaxFaults
    <3>1. CASE run[p].at = "idle"
      <4>1. report' \in Reports /\ faults' \in 0..MaxFaults
        BY <2>1, <3>1, PersistType DEF Enter
      <4>2. run' = [run EXCEPT ![p].at = "list"]
        BY <2>1, <3>1 DEF Enter
      <4>3. QED
        BY <2>0, <4>1, <4>2, SetAtType
    <3>2. CASE run[p].at # "idle"
      BY <2>0, <2>1, <3>2 DEF Enter
    <3>3. QED
      BY <3>1, <3>2
  <2>2. CASE Resync
    BY <2>2 DEF Resync
  <2>3. CASE TimerRun \/ WatcherRun
    BY <2>1, <2>3 DEF TimerRun, WatcherRun, Runs, Reports
  <2>4. ASSUME NEW p \in Pods, ManualRun(p) PROVE TypeOK'
    BY <2>1, <2>4 DEF ManualRun, Runs, Reports
  <2>5. ASSUME NEW p \in Pods, List(p) PROVE TypeOK'
    <3>1. run' \in [Pods -> Runs]
      <4>1. [run[p] EXCEPT !.at = "next", !.todo = ingress] \in Runs
        BY <2>0, <2>5, EditTypes
      <4>2. QED
        BY <2>0, <2>5, <4>1 DEF List
    <3>2. QED
      BY <2>5, <3>1 DEF List, Runs
  <2>6. ASSUME NEW p \in Pods, ListFails(p) \/ Finish(p) PROVE TypeOK'
    <3>1. run' \in [Pods -> Runs]
      BY <2>0, <2>6, NothingType DEF ListFails, Finish, Leave
    <3>2. report' \in Reports /\ faults' \in 0..MaxFaults
      <4>1. run[p].ok \in SUBSET Domains /\ {} \in SUBSET Domains
        BY <2>0 DEF Runs
      <4>2. CASE \E ok \in SUBSET Domains : Persist(p, FALSE, ok)
        BY <4>2, PersistType
      <4>3. CASE Fault /\ report' = Entry(p, FALSE, {})
        BY <4>1, <4>3, EntryType, FaultType
      <4>4. QED
        BY <2>6, <4>1, <4>2, <4>3 DEF ListFails, Finish, Leave
    <3>3. QED
      BY <2>6, <3>1, <3>2 DEF ListFails, Finish, Runs, Reports
  <2>7. ASSUME NEW p \in Pods, NEW d \in Domains, NextDomain(p, d) PROVE TypeOK'
    BY <2>7 DEF NextDomain
  <2>8. ASSUME NEW p \in Pods, AddSite(p) \/ CreateProxy(p) PROVE TypeOK'
    <3>1. run' \in [Pods -> Runs]
      BY <2>0, <2>8, MovesType, RefusedType DEF AddSite, CreateProxy, StopsRetrying
    <3>2. faults' \in 0..MaxFaults
      BY <2>8, FaultType DEF AddSite, CreateProxy
    <3>3. QED
      BY <2>8, <3>1, <3>2 DEF AddSite, CreateProxy, Runs
  <2>9. ASSUME NEW p \in Pods, Record(p) PROVE TypeOK'
    <3>1. PICK ok \in SUBSET Domains : Enters(p, ok)
      <4>1. run[p].ok \in SUBSET Domains /\ Done(p) \in SUBSET Domains
        BY <2>0 DEF Runs, Done
      <4>2. QED
        BY <2>9, <4>1 DEF Record
    <3>2. faults' \in 0..MaxFaults /\ report' \in Reports
      <4>1. run[p].ok \in SUBSET Domains /\ Done(p) \in SUBSET Domains
        BY <2>0 DEF Runs, Done
      <4>2. CASE Persist(p, TRUE, Done(p))
        BY <4>1, <4>2, PersistType
      <4>3. CASE Fault /\ report' \in {report, Entry(p, TRUE, run[p].ok)}
        <5>1. Entry(p, TRUE, run[p].ok) \in Reports
          BY <4>1, EntryType
        <5>2. faults' \in 0..MaxFaults
          BY <4>3, FaultType
        <5>3. QED
          BY <2>0, <4>3, <5>1, <5>2
      <4>4. QED
        BY <2>9, <4>2, <4>3 DEF Record
    <3>4. run' \in [Pods -> Runs]
      <4>1. [run[p] EXCEPT !.at = "next", !.cur = {}, !.ok = ok] \in Runs
        BY <2>0, <2>9, EditTypes
      <4>2. QED
        BY <2>0, <3>1, <4>1 DEF Enters
    <3>5. QED
      BY <2>9, <3>2, <3>4 DEF Record, Runs, Reports
  <2>10. ASSUME NEW p \in Pods, Cancel(p) PROVE TypeOK'
    <3>1. run' \in [Pods -> Runs]
      <4>1. [run[p] EXCEPT !.cancelled = TRUE] \in Runs
        BY <2>0, <2>10, EditTypes
      <4>2. QED
        BY <2>0, <2>10, <4>1 DEF Cancel
    <3>2. QED
      BY <2>10, <3>1, FaultType DEF Cancel, Runs
  <2>11. ASSUME NEW p \in Pods, Crash(p) PROVE TypeOK'
    <3>1. run' \in [Pods -> Runs]
      BY <2>0, <2>11, NothingType DEF Crash
    <3>2. del' \in [Domains -> Deletes]
      BY <2>11, NoDeleteType DEF Crash, Deletes
    <3>3. QED
      BY <2>11, <3>1, <3>2, FaultType DEF Crash, Runs, Deletes
  <2>12. ASSUME NEW d \in Domains, Apply(d) PROVE TypeOK'
    BY <2>12 DEF Apply
  <2>13. ASSUME NEW d \in Domains, DeleteStep(d) PROVE TypeOK'
    <3>1. del' \in [Domains -> Deletes]
      <4>1. CASE RemoveProxy(d)
        BY <4>1 DEF RemoveProxy, Deletes
      <4>2. CASE DeleteSite(d)
        BY <4>2, NoDeleteType DEF DeleteSite, Deletes
      <4>3. CASE DeleteSiteFails(d)
        <5>1. del \in [Domains -> Deletes]
          BY DEF Deletes
        <5>2. del[d].left # 0 =>
                [at |-> "proxy", left |-> del[d].left - 1, by |-> del[d].by] \in Deletes
          BY <5>1, RetryType
        <5>3. PICK e \in Deletes : del' = [del EXCEPT ![d] = e]
          BY <4>3, <5>2, NoDeleteType DEF DeleteSiteFails
        <5>4. QED
          BY <5>1, <5>3
      <4>4. QED
        BY <2>13, <4>1, <4>2, <4>3 DEF DeleteStep
    <3>2. faults' \in 0..MaxFaults
      BY <2>13, FaultType DEF DeleteStep, RemoveProxy, DeleteSite, DeleteSiteFails
    <3>3. report' \in Reports /\ disturbed' \in [Pods -> SUBSET Domains]
      <4>1. ASSUME Disturb(d)
            PROVE  report' \in Reports /\ disturbed' \in [Pods -> SUBSET Domains]
        BY <4>1 DEF Disturb, Reports
      <4>2. QED
        BY <2>0, <2>13, <4>1 DEF DeleteStep, RemoveProxy, DeleteSite, DeleteSiteFails
    <3>4. QED
      BY <2>13, <3>1, <3>2, <3>3
         DEF DeleteStep, RemoveProxy, DeleteSite, DeleteSiteFails, Deletes, Reports
  <2>14. ASSUME NEW d \in Domains, NEW p \in Pods, NEW withSite \in BOOLEAN,
                DeleteIngress(d, p, withSite) PROVE TypeOK'
    BY <2>14 DEF DeleteIngress
  <2>15. CASE UNCHANGED vars
    BY <2>15 DEF vars
  <2>16. QED
    BY <2>2, <2>3, <2>4, <2>5, <2>6, <2>7, <2>8, <2>9, <2>10, <2>11, <2>12, <2>13, <2>14, <2>15
       DEF Next, RunStep
<1>3. QED
  BY <1>1, <1>2, PTL DEF Spec

-----------------------------------------------------------------------------
\* A pod that runs no sync has nothing on its lists.
LEMMA NothingIsEmpty == /\ Nothing.todo = {} /\ Nothing.cur = {} /\ Nothing.ok = {}
                        /\ Nothing.at = "idle"
  BY DEF Nothing

\* What any number of pods with one changed entry looks like.
LEMMA Stopped ==
  ASSUME TypeOK, NEW p \in Pods, run' = [run EXCEPT ![p] = Nothing]
  PROVE  \A q \in Pods : run'[q] = IF q = p THEN Nothing ELSE run[q]
  BY DEF TypeOK

\* A deleted site is on nobody's list: no Ingress asks for it and no run holds it.
CleanInv ==
    /\ clean \cap ingress = {}
    /\ clean \cap site = {}
    /\ \A p \in Pods : clean \cap (run[p].todo \cup run[p].cur) = {}

\* At the start nothing has been deleted.
LEMMA InitClean == Init => CleanInv
  BY DEF Init, CleanInv, Nothing

\* No step brings a deleted site back on a list.
LEMMA CleanStep == ASSUME TypeOK, CleanInv, Next PROVE CleanInv'
<1> USE DEF TypeOK, CleanInv, panel, history
<1>1. ASSUME NEW p \in Pods, Enter(p) PROVE \A q \in Pods : /\ run'[q].todo = run[q].todo
                                                          /\ run'[q].cur = run[q].cur
  <2>1. CASE run' = [run EXCEPT ![p].at = "list"]
    BY <2>1
  <2>2. CASE run' = run
    BY <2>2
  <2>3. QED
    BY <1>1, <2>1, <2>2 DEF Enter
<1>2. CASE Resync \/ TimerRun \/ WatcherRun
  BY <1>1, <1>2 DEF Resync, TimerRun, WatcherRun
<1>3. ASSUME NEW p \in Pods, ManualRun(p) PROVE CleanInv'
  BY <1>1, <1>3 DEF ManualRun
<1>4. ASSUME NEW p \in Pods, List(p) PROVE CleanInv'
  BY <1>4 DEF List
<1>5. ASSUME NEW p \in Pods, ListFails(p) \/ Finish(p) PROVE CleanInv'
  <2>1. run' = [run EXCEPT ![p] = Nothing]
    BY <1>5 DEF ListFails, Finish, Leave
  <2>2. QED
    BY <1>5, <2>1, Stopped, NothingIsEmpty DEF ListFails, Finish
<1>6. ASSUME NEW p \in Pods, NEW d \in Domains, NextDomain(p, d) PROVE CleanInv'
  BY <1>6 DEF NextDomain
<1>7. ASSUME NEW p \in Pods, NEW next, NEW good, Moves(p, next, good)
      PROVE  \A q \in Pods : /\ run'[q].todo = run[q].todo
                             /\ run'[q].cur = run[q].cur
  BY <1>7 DEF Moves
<1>8. ASSUME NEW p \in Pods, NEW next, Refused(p, next) \/ StopsRetrying(p, next)
      PROVE  \A q \in Pods : /\ run'[q].todo = run[q].todo
                             /\ run'[q].cur = run[q].cur
  <2>1. CASE run' = [run EXCEPT ![p].tries = @ + 1]
    BY <2>1
  <2>2. CASE Moves(p, next, FALSE)
    BY <1>7, <2>2
  <2>3. QED
    BY <1>8, <2>1, <2>2 DEF Refused, StopsRetrying
<1>9. ASSUME NEW p \in Pods, AddSite(p) PROVE CleanInv'
  <2>1. \A q \in Pods : run'[q].todo = run[q].todo /\ run'[q].cur = run[q].cur
    BY <1>7, <1>8, <1>9 DEF AddSite
  <2>2. site' \subseteq site \cup run[p].cur
    BY <1>9 DEF AddSite
  <2>3. QED
    BY <1>9, <2>1, <2>2 DEF AddSite
<1>10. ASSUME NEW p \in Pods, CreateProxy(p) PROVE CleanInv'
  <2>1. \A q \in Pods : run'[q].todo = run[q].todo /\ run'[q].cur = run[q].cur
    BY <1>7, <1>8, <1>10 DEF CreateProxy
  <2>2. QED
    BY <1>10, <2>1 DEF CreateProxy
<1>11. ASSUME NEW p \in Pods, Record(p) PROVE CleanInv'
  <2>1. PICK ok \in {run[p].ok, Done(p)} : Enters(p, ok)
    BY <1>11 DEF Record
  <2>2. \A q \in Pods : run'[q].todo = run[q].todo /\ run'[q].cur \subseteq run[q].cur
    BY <2>1 DEF Enters
  <2>3. QED
    BY <1>11, <2>2 DEF Record
<1>12. ASSUME NEW p \in Pods, Cancel(p) \/ Crash(p) PROVE CleanInv'
  <2>1. CASE Cancel(p)
    BY <2>1 DEF Cancel
  <2>2. CASE Crash(p)
    BY <2>2, Stopped, NothingIsEmpty DEF Crash
  <2>3. QED
    BY <1>12, <2>1, <2>2
<1>13. ASSUME NEW d \in Domains, Apply(d) PROVE CleanInv'
  BY <1>13 DEF Apply
<1>14. ASSUME NEW d \in Domains, DeleteStep(d) PROVE CleanInv'
  BY <1>14 DEF DeleteStep, RemoveProxy, DeleteSite, DeleteSiteFails, Listed, Disturb
<1>15. ASSUME NEW d \in Domains, NEW p \in Pods, NEW withSite \in BOOLEAN,
              DeleteIngress(d, p, withSite) PROVE CleanInv'
  BY <1>15 DEF DeleteIngress
<1>16. QED
  BY <1>2, <1>3, <1>4, <1>5, <1>6, <1>9, <1>10, <1>11, <1>12, <1>13, <1>14, <1>15
     DEF Next, RunStep

(* A site deleted while nobody had it on a list stays away for ever.        *)
THEOREM NoResurrectionHolds == Spec => []NoResurrection
<1>1. CleanInv /\ UNCHANGED vars => CleanInv'
  BY DEF CleanInv, vars, panel, history
<1>2. CleanInv => NoResurrection
  BY DEF CleanInv, NoResurrection
<1>3. QED
  BY <1>1, <1>2, InitClean, CleanStep, TypeCorrect, PTL DEF Spec

-----------------------------------------------------------------------------
\* What a run knows of the panel: what it has called OK is there, and so is what its
\* current step has reached, but for what somebody deleted since it turned to it.
There == site \cap proxy
Working == {"site", "proxy", "record"}

RunOf(p) ==
    /\ run[p].at \in {"idle", "list"} => run[p].todo = {} /\ run[p].ok = {}
    /\ run[p].at \in Working => \E d \in Domains : run[p].cur = {d}
    /\ run[p].at \notin Working => run[p].cur = {}
    /\ run[p].todo \cap (run[p].ok \cup run[p].cur) = {}
    /\ run[p].ok \ disturbed[p] \subseteq There
    /\ run[p].at = "proxy" /\ run[p].good => run[p].cur \ disturbed[p] \subseteq site
    /\ run[p].at = "record" /\ run[p].good => run[p].cur \ disturbed[p] \subseteq There

RunInv ==
    /\ report.ok \ report.spoiled \subseteq There
    /\ \A p \in Pods : RunOf(p)

\* Sites and proxies that come only help; only the moving pod has to be looked at.
LEMMA OthersKeep ==
  ASSUME TypeOK, RunInv, NEW p \in Pods,
         site \subseteq site', proxy \subseteq proxy',
         \A q \in Pods \ {p} : run'[q] = run[q] /\ disturbed'[q] = disturbed[q],
         RunOf(p)'
  PROVE  \A q \in Pods : RunOf(q)'
  BY DEF RunInv, RunOf, There

\* An entry of a run's report is as true as the run.
LEMMA EntryTruth ==
  ASSUME NEW p \in Pods, NEW ok, NEW running, ok \ disturbed[p] \subseteq There',
         report' = Entry(p, running, ok)
  PROVE  (report.ok \ report.spoiled \subseteq There)'
  BY DEF Entry

\* A stored report says done only of what the panel has, as far as it was undisturbed.
LEMMA PersistTruth ==
  ASSUME RunInv, NEW p \in Pods, NEW ok, NEW running, ok \ disturbed[p] \subseteq There,
         UNCHANGED panel, Persist(p, running, ok)
  PROVE  (report.ok \ report.spoiled \subseteq There)'
  BY EntryTruth DEF Persist, RunInv, There, panel

\* Every step of the sync keeps what a run has done true.
LEMMA RunsStep == ASSUME TypeOK, RunInv, Next PROVE RunInv'
<1> USE DEF panel, history
<1>0. run \in [Pods -> Runs]
  BY DEF TypeOK, Runs
<1>1. ASSUME NEW p \in Pods, Enter(p), UNCHANGED <<panel, disturbed>> PROVE RunInv'
  <2>1. CASE run[p].at = "idle"
    <3>1. run' = [run EXCEPT ![p].at = "list"] /\ Persist(p, TRUE, {})
      BY <1>1, <2>1 DEF Enter
    <3>2. RunOf(p)'
      BY <1>0, <1>1, <2>1, <3>1 DEF RunInv, RunOf, There, Working, Runs
    <3>3. \A q \in Pods : RunOf(q)'
      BY <1>0, <1>1, <3>1, <3>2, OthersKeep
    <3>4. QED
      BY <1>1, <3>1, <3>3, PersistTruth DEF RunInv
  <2>2. CASE run[p].at # "idle"
    BY <1>1, <2>2 DEF Enter, RunInv, RunOf, There
  <2>3. QED
    BY <2>1, <2>2
<1>2. CASE Resync
  BY <1>2 DEF Resync, RunInv, RunOf, There
<1>3. CASE TimerRun \/ WatcherRun
  BY <1>1, <1>3 DEF TimerRun, WatcherRun
<1>4. ASSUME NEW p \in Pods, ManualRun(p) PROVE RunInv'
  BY <1>1, <1>4 DEF ManualRun
<1>5. ASSUME NEW p \in Pods, List(p) PROVE RunInv'
  <2>1. RunOf(p)'
    BY <1>0, <1>5 DEF List, RunInv, RunOf, There, Working, Runs
  <2>2. \A q \in Pods : RunOf(q)'
    BY <1>0, <1>5, <2>1, OthersKeep DEF List
  <2>3. QED
    BY <1>5, <2>2 DEF List, RunInv, There
<1>6. ASSUME NEW p \in Pods, ListFails(p) \/ Finish(p) PROVE RunInv'
  <2>1. run' = [run EXCEPT ![p] = Nothing] /\ UNCHANGED <<panel, disturbed>>
    BY <1>6 DEF ListFails, Finish, Leave
  <2>2. \A q \in Pods : RunOf(q)'
    <3>1. RunOf(p)'
      BY <1>0, <2>1, NothingIsEmpty DEF RunOf, Working
    <3>2. QED
      BY <1>0, <2>1, <3>1, OthersKeep
  <2>3. (report.ok \ report.spoiled \subseteq There)'
    <3>1. run[p].ok \ disturbed[p] \subseteq There
      BY DEF RunInv, RunOf
    <3>2. QED
      BY <1>6, <2>1, <3>1, PersistTruth, EntryTruth DEF ListFails, Finish, Leave
  <2>4. QED
    BY <2>2, <2>3 DEF RunInv
<1>7. ASSUME NEW p \in Pods, NEW d \in Domains, NextDomain(p, d) PROVE RunInv'
  <2>1. RunOf(p)'
    BY <1>0, <1>7 DEF TypeOK, NextDomain, RunInv, RunOf, There, Working, Runs
  <2>2. \A q \in Pods : RunOf(q)'
    BY <1>0, <1>7, <2>1, OthersKeep DEF NextDomain, TypeOK
  <2>3. QED
    BY <1>7, <2>2 DEF NextDomain, RunInv, There
<1>8. ASSUME NEW p \in Pods, AddSite(p) PROVE RunInv'
  <2>1. RunOf(p)'
    BY <1>0, <1>8 DEF AddSite, Moves, Refused, StopsRetrying, RunInv, RunOf, There, Working, Runs
  <2>2. QED
    BY <1>0, <1>8, <2>1, OthersKeep
       DEF AddSite, Moves, Refused, StopsRetrying, RunInv, There
<1>9. ASSUME NEW p \in Pods, CreateProxy(p) PROVE RunInv'
  <2>1. RunOf(p)'
    BY <1>0, <1>9 DEF CreateProxy, TakenForExisting, Moves, Refused, StopsRetrying,
                      RunInv, RunOf, There, Working, Runs
  <2>2. QED
    BY <1>0, <1>9, <2>1, OthersKeep
       DEF CreateProxy, Moves, Refused, StopsRetrying, RunInv, There
<1>10. ASSUME NEW p \in Pods, Record(p) PROVE RunInv'
  <2>1. PICK ok \in {run[p].ok, Done(p)} :
          /\ Enters(p, ok)
          /\ Persist(p, TRUE, ok) \/ report' \in {report, Entry(p, TRUE, ok)}
    BY <1>10 DEF Record
  <2>2. run[p].at = "record" /\ UNCHANGED <<panel, disturbed>>
    BY <1>10 DEF Record
  <2>3. ok \ disturbed[p] \subseteq There
    BY <2>1, <2>2 DEF RunInv, RunOf, Done
  <2>4. RunOf(p)'
    BY <1>0, <2>1, <2>2, <2>3 DEF Enters, RunInv, RunOf, There, Working, Runs
  <2>5. \A q \in Pods : RunOf(q)'
    BY <1>0, <2>1, <2>2, <2>4, OthersKeep DEF Enters
  <2>6. ok \ disturbed[p] \subseteq There'
    BY <2>2, <2>3 DEF There
  <2>7. (report.ok \ report.spoiled \subseteq There)'
    <3>1. CASE report' = report
      BY <2>2, <3>1 DEF RunInv, There
    <3>2. CASE Persist(p, TRUE, ok)
      BY <2>2, <2>3, <3>2, PersistTruth DEF There
    <3>3. CASE report' = Entry(p, TRUE, ok)
      BY <2>6, <3>3, EntryTruth
    <3>4. QED
      BY <2>1, <3>1, <3>2, <3>3
  <2>8. QED
    BY <2>5, <2>7 DEF RunInv
<1>11. ASSUME NEW p \in Pods, Cancel(p) PROVE RunInv'
  <2>1. RunOf(p)'
    BY <1>0, <1>11 DEF Cancel, RunInv, RunOf, There, Runs
  <2>2. QED
    BY <1>0, <1>11, <2>1, OthersKeep DEF Cancel, RunInv, There
<1>12. ASSUME NEW p \in Pods, Crash(p) PROVE RunInv'
  <2>1. RunOf(p)'
    BY <1>0, <1>12, NothingIsEmpty DEF Crash, RunOf, Working
  <2>2. QED
    BY <1>0, <1>12, <2>1, OthersKeep DEF Crash, RunInv, There
<1>13. ASSUME NEW d \in Domains, Apply(d) PROVE RunInv'
  BY <1>13 DEF Apply, RunInv, RunOf, There
<1>14. ASSUME NEW d \in Domains, DeleteStep(d) PROVE RunInv'
  <2>1. CASE UNCHANGED <<panel, run, report, disturbed>>
    BY <2>1 DEF RunInv, RunOf, There
  <2>2. CASE /\ Disturb(d) /\ UNCHANGED run
             /\ site \ {d} \subseteq site' /\ proxy \ {d} \subseteq proxy'
    BY <2>2 DEF TypeOK, Disturb, RunInv, RunOf, There
  <2>3. QED
    BY <1>14, <2>1, <2>2 DEF DeleteStep, RemoveProxy, DeleteSite, DeleteSiteFails
<1>15. ASSUME NEW d \in Domains, NEW p \in Pods, NEW withSite \in BOOLEAN,
              DeleteIngress(d, p, withSite) PROVE RunInv'
  BY <1>15 DEF DeleteIngress, RunInv, RunOf, There
<1>16. QED
  BY <1>2, <1>3, <1>4, <1>5, <1>6, <1>7, <1>8, <1>9, <1>10, <1>11, <1>12, <1>13, <1>14, <1>15
     DEF Next, RunStep

(* Whatever the report calls OK is on the panel, but for what somebody has  *)
(* deleted since: whatever calls failed, were cancelled or repeated.        *)
THEOREM ReportTruthfulHolds == Spec => []ReportTruthful
<1>1. Init => RunInv
  BY NothingIsEmpty DEF Init, RunInv, RunOf, There, Working
<1>2. RunInv /\ UNCHANGED vars => RunInv'
  BY DEF RunInv, RunOf, There, vars, panel, history
<1>3. RunInv => ReportTruthful
  BY DEF RunInv, There, ReportTruthful
<1>4. QED
  BY <1>1, <1>2, <1>3, RunsStep, TypeCorrect, PTL DEF Spec

=============================================================================
