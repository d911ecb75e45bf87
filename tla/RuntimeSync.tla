---------------------------- MODULE RuntimeSync ----------------------------
(***************************************************************************)
(* The runtime settings of several pods over one MySQL.  A save writes the  *)
(* pod's local file, then MySQL, then a new revision, and reloads the pod   *)
(* (settings_runtime_handlers.go, mysql_platform.go); every pod polls the   *)
(* revision and reloads when it changed (runtime_cluster_sync.go).  A       *)
(* reload takes MySQL's settings, or the file's if MySQL cannot be opened,  *)
(* and swaps them in (server_app.go); nothing orders two reloads of a pod.  *)
(* What a save keeps is older than the save: the settings page sends back   *)
(* the whole form that it once fetched (SettingsRuntimeSection.tsx), from   *)
(* whichever pod; only masked secrets are taken from the file.              *)
(*                                                                         *)
(* A pod has two tasks: "sync", the boot and then the polling loop, and     *)
(* "put", one save, from the fetching of its form.  Settings map fields to the number of the *)
(* save that set them.  Revisions are timestamps in the code; they are only *)
(* compared for equality, and count the bumps here.  The data directory is  *)
(* the pod's own and survives its restart.                                  *)
(***************************************************************************)
EXTENDS Naturals

CONSTANTS
    Pods, Fields,
    Secrets,        \* the fields that a form shows masked
    MaxSaves,       \* bound on saves
    MaxFaults       \* bound on restarts and failed calls to MySQL or the file

ASSUME SecretAssumption == Secrets \subseteq Fields
ASSUME BoundAssumption == MaxSaves \in Nat /\ MaxFaults \in Nat

VARIABLES
    mysql, rev,     \* MySQL: the settings and their revision, 0 if there is none
    file, mem,      \* per pod: the settings in its file and those it runs with
    pool,           \* the pods that have MySQL open; without it the loop skips its ticks
    last,           \* the revision the polling loop has seen, 0 if it has seen none
    at, val,        \* the tasks: where they are and the settings they carry
    edits,          \* the fields a save changes
    booting,        \* the pods that load their first settings
    saves, faults,  \* so far
    seen,           \* history: the revision the polling loop last loaded or began to load for
    clean,          \* history: the polling loop's load is not disturbed
    blind,          \* history: pods that may not know that they are out of date
    abreast         \* history: pods whose save works from MySQL's settings and met no other one

taskVars == <<at, val>>
histVars == <<seen, clean, blind, abreast>>
vars == <<mysql, rev, file, mem, pool, last, taskVars, edits, booting, saves, faults, histVars>>

Settings == [Fields -> Nat]
Tasks == {"sync", "put"}
Loading == {"load", "read", "store", "publish", "bare"}
Steps == Loading \cup {"idle", "form", "file", "local", "mysql", "bump"}

TypeOK ==
    /\ mysql \in Settings /\ rev \in Nat
    /\ file \in [Pods -> Settings] /\ mem \in [Pods -> Settings]
    /\ last \in [Pods -> Nat] /\ seen \in [Pods -> Nat]
    /\ at \in [Pods -> [Tasks -> Steps]] /\ val \in [Pods -> [Tasks -> Settings]]
    /\ edits \in [Pods -> SUBSET Fields]
    /\ saves \in 0..MaxSaves /\ faults \in 0..MaxFaults
    /\ pool \subseteq Pods /\ booting \subseteq Pods /\ clean \subseteq Pods
    /\ blind \subseteq Pods /\ abreast \subseteq Pods

Fault == faults < MaxFaults /\ faults' = faults + 1

Go(p, k, s) == at' = [at EXCEPT ![p][k] = s]
Carry(p, k, v) == val' = [val EXCEPT ![p][k] = v]

\* A save has reached MySQL and its revision has not.
Pending == \E p \in Pods : at[p]["put"] = "bump"

\* The pod is idle and has seen the current revision.
Synced(p) ==
    /\ p \notin booting /\ at[p]["sync"] = "idle" /\ at[p]["put"] \in {"idle", "form"}
    /\ ~Pending /\ last[p] = rev

Initial == [f \in Fields |-> 0]

\* All pods boot; the settings may have been saved before, or never.
Init ==
    /\ mysql = Initial /\ rev \in {0, 1}
    /\ file = [p \in Pods |-> Initial] /\ mem = [p \in Pods |-> Initial]
    /\ pool = {} /\ last = [p \in Pods |-> 0] /\ seen = [p \in Pods |-> rev]
    /\ at = [p \in Pods |-> [k \in Tasks |-> IF k = "sync" THEN "load" ELSE "idle"]]
    /\ val = [p \in Pods |-> [k \in Tasks |-> Initial]]
    /\ edits = [p \in Pods |-> {}]
    /\ booting = Pods /\ clean = Pods
    /\ saves = 0 /\ faults = 0
    /\ blind = {} /\ abreast = {}

\* Every pod of P may have missed a change, the load of its loop included.
Disturb(P) == blind' = blind \cup P /\ clean' = clean \ P

-----------------------------------------------------------------------------
(* Reload, by either task.                                                  *)

BeginLoad(p, k) ==
    /\ Go(p, k, "load")
    /\ IF k = "put" /\ at[p]["sync"] \in Loading
       THEN Disturb({p})
       ELSE UNCHANGED <<blind, clean>>

LoadFile(p, k) ==
    /\ at[p][k] = "load"
    /\ Carry(p, k, file[p]) /\ Go(p, k, "read")
    /\ UNCHANGED <<mysql, rev, file, mem, pool, last, edits, booting, saves, faults, histVars>>

\* The file cannot be read: the request fails, the loop tries again.
LoadFileFails(p, k) ==
    /\ at[p][k] = "load" /\ Fault /\ p \notin booting
    /\ Go(p, k, "idle")
    /\ seen' = IF k = "sync" THEN [seen EXCEPT ![p] = last[p]] ELSE seen
    /\ UNCHANGED <<mysql, rev, file, mem, pool, last, val, edits, booting, saves,
                   clean, blind, abreast>>

LoadMySQL(p, k) ==
    /\ at[p][k] = "read"
    /\ Carry(p, k, mysql) /\ Go(p, k, "store")
    /\ UNCHANGED <<mysql, rev, file, mem, pool, last, edits, booting, saves, faults, histVars>>

\* MySQL cannot be opened or read: the file's settings are taken, and no error
\* returned.  A pool that the pod already has is kept.
LoadMySQLFails(p, k) ==
    /\ at[p][k] = "read" /\ Fault
    /\ \E opened \in BOOLEAN : Go(p, k, IF opened \/ p \in pool THEN "publish" ELSE "bare")
    /\ Disturb({p})
    /\ UNCHANGED <<mysql, rev, file, mem, pool, last, val, edits, booting, saves, seen, abreast>>

\* Mutant: the settings taken from MySQL are not written to the file.
LoadStoreForgets(p, k) ==
    /\ at[p][k] = "store" /\ Go(p, k, "publish")
    /\ UNCHANGED <<mysql, rev, file, mem, pool, last, val, edits, booting, saves, faults, histVars>>

LoadStore(p, k) ==
    /\ at[p][k] = "store"
    /\ file' = [file EXCEPT ![p] = val[p][k]] /\ Go(p, k, "publish")
    /\ UNCHANGED <<mysql, rev, mem, pool, last, val, edits, booting, saves, faults, histVars>>

LoadStoreFails(p, k) ==
    /\ at[p][k] = "store" /\ Fault
    /\ Go(p, k, "publish") /\ Disturb({p})
    /\ UNCHANGED <<mysql, rev, file, mem, pool, last, val, edits, booting, saves, seen, abreast>>

\* Mutant: the loop notes the current revision and not the one it reloaded for.
NotedLate(p) == IF p \in booting THEN 0 ELSE rev

\* What the loop has seen once its load is over: nothing after the boot.
Noted(p) == IF p \in booting THEN 0 ELSE seen[p]

Publish(p, k) ==
    /\ at[p][k] \in {"publish", "bare"}
    /\ mem' = [mem EXCEPT ![p] = val[p][k]] /\ Go(p, k, "idle")
    /\ pool' = IF at[p][k] = "publish" THEN pool \cup {p} ELSE pool

PublishSync(p) ==
    /\ Publish(p, "sync")
    /\ last' = [last EXCEPT ![p] = Noted(p)]
    /\ booting' = booting \ {p}
    /\ blind' = IF p \in clean THEN blind \ {p} ELSE blind
    /\ UNCHANGED <<mysql, rev, file, val, edits, saves, faults, seen, clean, abreast>>

PublishPut(p) ==
    /\ Publish(p, "put")
    /\ UNCHANGED <<mysql, rev, file, last, val, edits, booting, saves, faults, histVars>>

-----------------------------------------------------------------------------
(* StartCrossPodRuntimeSync: one tick of the loop.                          *)

\* A pod that has no pool skips its ticks.
Polls(p) == at[p]["sync"] = "idle" /\ p \in pool \ booting /\ rev # 0

\* The first revision is taken over without a reload.
TickAdopt(p) ==
    /\ Polls(p) /\ last[p] = 0
    /\ last' = [last EXCEPT ![p] = rev]
    /\ blind' = IF seen[p] = rev THEN blind ELSE blind \cup {p}
    /\ seen' = [seen EXCEPT ![p] = rev]
    /\ UNCHANGED <<mysql, rev, file, mem, pool, taskVars, edits, booting, saves, faults, clean,
                   abreast>>

TickReload(p) ==
    /\ Polls(p) /\ last[p] \notin {0, rev}
    /\ Go(p, "sync", "load")
    /\ seen' = [seen EXCEPT ![p] = rev]
    /\ IF at[p]["put"] \in Loading THEN Disturb({p}) ELSE clean' = clean \cup {p} /\ UNCHANGED blind
    /\ UNCHANGED <<mysql, rev, file, mem, pool, last, val, edits, booting, saves, faults, abreast>>

-----------------------------------------------------------------------------
(* A save: PUT of the settings page's form, or a patch of the pod's file.   *)

UpToDate(p) == Synced(p) /\ p \notin blind

\* The page fetches its form from pod q; pod p will serve the save.
FetchForm(p, q) ==
    /\ at[p]["put"] \in {"idle", "form"} /\ q \notin booting /\ saves < MaxSaves
    /\ Carry(p, "put", mem[q]) /\ Go(p, "put", "form")
    /\ abreast' = IF UpToDate(q) THEN abreast \cup {p} ELSE abreast \ {p}
    /\ UNCHANGED <<mysql, rev, file, mem, pool, last, edits, booting, saves, faults,
                   seen, clean, blind>>

Begin(p, E, body, to) ==
    /\ p \notin booting /\ E # {} /\ saves < MaxSaves
    /\ Carry(p, "put", [f \in Fields |-> IF f \in E THEN saves + 1 ELSE body[f]])
    /\ Go(p, "put", to)
    /\ edits' = [edits EXCEPT ![p] = E] /\ saves' = saves + 1
    /\ UNCHANGED <<mysql, rev, file, mem, pool, last, booting, faults, seen, clean, blind>>

\* The form as it was fetched, but for the secrets: those are the file's.
Body(p) == [f \in Fields |-> IF f \in Secrets THEN file[p][f] ELSE val[p]["put"][f]]

BeginPut(p, E) ==
    /\ at[p]["put"] = "form"
    /\ Begin(p, E, Body(p), "file")
    /\ abreast' = IF UpToDate(p) THEN abreast ELSE abreast \ {p}

\* The patch uses the pod's pool and is not stored in MySQL if there is none.
BeginPatch(p, E) ==
    /\ at[p]["put"] = "idle"
    /\ Begin(p, E, file[p], IF p \in pool THEN "file" ELSE "local")
    /\ abreast' = IF UpToDate(p) THEN abreast \cup {p} ELSE abreast \ {p}

PutLocal(p) ==
    /\ at[p]["put"] = "local"
    /\ file' = [file EXCEPT ![p] = val[p]["put"]] /\ BeginLoad(p, "put")
    /\ UNCHANGED <<mysql, rev, mem, pool, last, val, edits, booting, saves, faults, seen, abreast>>

PutFile(p) ==
    /\ at[p]["put"] = "file"
    /\ file' = [file EXCEPT ![p] = val[p]["put"]] /\ Go(p, "put", "mysql")
    /\ UNCHANGED <<mysql, rev, mem, pool, last, val, edits, booting, saves, faults, histVars>>

PutFileFails(p) ==
    /\ at[p]["put"] \in {"file", "local"} /\ Fault
    /\ Go(p, "put", "idle")
    /\ UNCHANGED <<mysql, rev, file, mem, pool, last, val, edits, booting, saves, histVars>>

PutMySQL(p) ==
    /\ at[p]["put"] = "mysql"
    /\ mysql' = val[p]["put"] /\ Go(p, "put", "bump")
    /\ abreast' = abreast \cap {p}
    /\ UNCHANGED <<rev, file, mem, pool, last, val, edits, booting, saves, faults, seen, clean,
                   blind>>

\* The file keeps what MySQL has refused, or has stored without an answer: then no
\* pod learns of it.
PutMySQLFails(p) ==
    /\ at[p]["put"] = "mysql" /\ Fault
    /\ Go(p, "put", "idle")
    /\ \/ Disturb({p}) /\ UNCHANGED <<mysql, abreast>>
       \/ Disturb(Pods) /\ mysql' = val[p]["put"] /\ abreast' = abreast \cap {p}
    /\ UNCHANGED <<rev, file, mem, pool, last, val, edits, booting, saves, seen>>

\* Mutant: the save does not bump the revision.
PutBumpForgets(p) ==
    /\ at[p]["put"] = "bump" /\ BeginLoad(p, "put")
    /\ UNCHANGED <<mysql, rev, file, mem, pool, last, val, edits, booting, saves, faults, seen,
                   abreast>>

PutBump(p) ==
    /\ at[p]["put"] = "bump"
    /\ rev' = rev + 1 /\ BeginLoad(p, "put")
    /\ UNCHANGED <<mysql, file, mem, pool, last, val, edits, booting, saves, faults, seen, abreast>>

\* A failed bump is ignored: no pod learns of the save.
PutBumpFails(p) ==
    /\ at[p]["put"] = "bump" /\ Fault
    /\ Go(p, "put", "load") /\ Disturb(Pods)
    /\ UNCHANGED <<mysql, rev, file, mem, pool, last, val, edits, booting, saves, seen, abreast>>

\* A save that dies before its bump leaves the other pods out of date; the form of
\* one that has not been sent is in the browser.
Restart(p) ==
    /\ Fault
    /\ at' = [at EXCEPT ![p] = [k \in Tasks |-> IF k = "sync" THEN "load"
                                              ELSE IF at[p][k] = "form" THEN "form" ELSE "idle"]]
    /\ pool' = pool \ {p}
    /\ last' = [last EXCEPT ![p] = 0] /\ seen' = [seen EXCEPT ![p] = rev]
    /\ booting' = booting \cup {p}
    /\ LET lost == IF at[p]["put"] = "bump" THEN Pods ELSE {}
       IN  blind' = (blind \cup lost) \ {p} /\ clean' = (clean \ lost) \cup {p}
    /\ UNCHANGED <<mysql, rev, file, mem, val, edits, saves, abreast>>

-----------------------------------------------------------------------------
Load(p, k) ==
    \/ LoadFile(p, k) \/ LoadFileFails(p, k)
    \/ LoadMySQL(p, k) \/ LoadMySQLFails(p, k)
    \/ LoadStore(p, k) \/ LoadStoreFails(p, k)

SyncStep(p) == TickAdopt(p) \/ TickReload(p) \/ Load(p, "sync") \/ PublishSync(p)

PutStep(p) ==
    \/ PutFile(p) \/ PutFileFails(p) \/ PutLocal(p) \/ PutMySQL(p) \/ PutMySQLFails(p)
    \/ PutBump(p) \/ PutBumpFails(p) \/ Load(p, "put") \/ PublishPut(p)

Next ==
    \E p \in Pods :
        \/ SyncStep(p) \/ PutStep(p) \/ Restart(p)
        \/ \E q \in Pods : FetchForm(p, q)
        \/ \E E \in SUBSET Fields : BeginPut(p, E) \/ BeginPatch(p, E)

Spec == Init /\ [][Next]_vars

\* The ticker and the tasks go on; nobody has to save.
Fairness == \A p \in Pods : WF_vars(SyncStep(p)) /\ WF_vars(PutStep(p))

FairSpec == Spec /\ Fairness

-----------------------------------------------------------------------------
\* A pod whose loop has seen the current revision runs with MySQL's settings and
\* has them in its file, unless it is known why not: the revision it adopted
\* unread, two loads at the same time, a failed load, save or bump, or no pool.  A load of
\* the loop that nothing disturbs puts an end to each of these.
SyncedIsCurrent ==
    \A p \in Pods \ blind : Synced(p) => mem[p] = mysql /\ file[p] = mysql

\* A save does not undo what others saved in the fields it does not edit, if its
\* form was fetched from a pod that was up to date, another such pod serves it, and
\* no other save has come between; whatever becomes of it.
OthersKept ==
    [][\A p \in abreast : at[p]["put"] = "mysql" /\ at'[p]["put"] # "mysql" =>
          \A f \in Fields \ edits[p] : mysql'[f] = mysql[f]]_vars

\* Once the saves are over, every pod that nothing made blind ends up with
\* MySQL's settings.
CatchesUp == \A p \in Pods : <>[](p \in blind \/ mem[p] = mysql)

\* The claim of runtime_cluster_sync.go:10: after a save on any pod the others
\* reload, and the replicas agree.
AllAgree == \A p \in Pods : <>[](mem[p] = mysql)
=============================================================================
