---------------------------- MODULE ServerProofs ----------------------------
(***************************************************************************)
(* A pod that thinks it has the current settings has them; an order that a  *)
(* mesh client is said to have completed was tried there, and a revocation  *)
(* that met no report stands; what the alert worker has announced is what   *)
(* it has saved.  For any number of pods, conns, orders, workers and rules. *)
(***************************************************************************)
EXTENDS MCServer, TLAPS

SyncAt(p) == at[p]["sync"]
PutAt(p) == at[p]["put"]

(***************************************************************************)
(* What the loop has seen is never ahead of the revision, and a load of the *)
(* loop is for a newer revision than the one it noted last.                 *)
(***************************************************************************)
Seen(p) ==
    /\ last[p] <= rev /\ seen[p] <= rev
    /\ p \notin booting /\ SyncAt(p) \in Loading => last[p] < rev
    /\ p \notin booting /\ SyncAt(p) = "idle" => last[p] \in {0, seen[p]}

(***************************************************************************)
(* Two loads of one pod are noticed, and what disturbs a load leaves the    *)
(* pod blind.                                                               *)
(***************************************************************************)
Noticed(p) ==
    /\ SyncAt(p) \in Loading \cup {"idle"}
    /\ p \in booting => SyncAt(p) \in Loading /\ PutAt(p) \in {"idle", "form"}
    /\ p \notin clean => p \in blind
    /\ SyncAt(p) \in Loading /\ PutAt(p) \in Loading => p \notin clean
    /\ SyncAt(p) = "idle" /\ PutAt(p) \in Loading /\ p \notin blind => seen[p] < rev

(***************************************************************************)
(* A pod without a pool is booting or rests blind: its loop does nothing.   *)
(***************************************************************************)
Pooled(p) ==
    /\ p \notin pool /\ p \notin booting => SyncAt(p) = "idle" /\ p \in blind
    /\ SyncAt(p) = "bare" => p \notin clean
    /\ PutAt(p) \in {"bare", "local"} => p \notin pool /\ p \in blind

(***************************************************************************)
(* As long as the revision has not changed, an undisturbed load carries     *)
(* MySQL's settings and leaves them in the file and in memory.              *)
(***************************************************************************)
Unchanged(p) == ~Pending /\ seen[p] = rev

Current(p) ==
    Unchanged(p) =>
        /\ SyncAt(p) \in {"store", "publish"} /\ p \in clean => val[p]["sync"] = mysql
        /\ SyncAt(p) = "publish" /\ p \in clean /\ PutAt(p) \in {"idle", "form", "file"} =>
             file[p] = mysql
        /\ SyncAt(p) = "idle" /\ p \notin blind /\ PutAt(p) \notin Loading =>
             /\ mem[p] = mysql
             /\ PutAt(p) \in {"idle", "form", "file"} => file[p] = mysql

PodInv(p) == Seen(p) /\ Noticed(p) /\ Pooled(p) /\ Current(p)
SyncInv == \A p \in Pods : PodInv(p)

(***************************************************************************)
(* The form of a save that met no other one, and the fields it then leaves  *)
(* as they are.                                                             *)
(***************************************************************************)
KeepInv ==
    \A p \in abreast :
        /\ PutAt(p) = "form" => val[p]["put"] = mysql
        /\ PutAt(p) \in {"file", "mysql"} =>
             \A f \in Fields \ edits[p] : val[p]["put"][f] = mysql[f]

IInv == TypeOK /\ SyncInv /\ KeepInv

-----------------------------------------------------------------------------
\* The initial states satisfy the invariant.
LEMMA InitIInv == Init => IInv
  BY BoundAssumption DEF Init, IInv, TypeOK, Settings, Tasks, Steps, Loading, Initial,
     SyncInv, PodInv, Seen, Noticed, Pooled, Current, Unchanged, KeepInv, SyncAt, PutAt

\* Every action keeps the variables within their types.
LEMMA TypeStep == TypeOK /\ [Next]_vars => TypeOK'
<1> SUFFICES ASSUME TypeOK, [Next]_vars PROVE TypeOK'
  OBVIOUS
<1> USE BoundAssumption
    DEF TypeOK, Settings, Tasks, Steps, Loading, Go, Carry, Disturb, Fault, histVars, taskVars
<1>1. ASSUME NEW p \in Pods, NEW k \in Tasks, Load(p, k) PROVE TypeOK'
  <2>1. CASE LoadFile(p, k)  BY <2>1 DEF LoadFile
  <2>2. CASE LoadFileFails(p, k)  BY <2>2 DEF LoadFileFails
  <2>3. CASE LoadMySQL(p, k)  BY <2>3 DEF LoadMySQL
  <2>4. CASE LoadMySQLFails(p, k)  BY <2>4 DEF LoadMySQLFails
  <2>5. CASE LoadStore(p, k)  BY <2>5 DEF LoadStore
  <2>6. CASE LoadStoreFails(p, k)  BY <2>6 DEF LoadStoreFails
  <2> QED  BY <1>1, <2>1, <2>2, <2>3, <2>4, <2>5, <2>6 DEF Load
<1>2. ASSUME NEW p \in Pods, SyncStep(p) PROVE TypeOK'
  <2>1. CASE TickAdopt(p)  BY <2>1 DEF TickAdopt, Polls
  <2>2. CASE TickReload(p)  BY <2>2 DEF TickReload, Polls
  <2>3. CASE PublishSync(p)  BY <2>3 DEF PublishSync, Publish, Noted
  <2> QED  BY <1>1, <1>2, <2>1, <2>2, <2>3 DEF SyncStep
<1>3. ASSUME NEW p \in Pods, PutStep(p) PROVE TypeOK'
  <2>1. CASE PutFile(p)  BY <2>1 DEF PutFile
  <2>2. CASE PutFileFails(p)  BY <2>2 DEF PutFileFails
  <2>3. CASE PutMySQL(p)  BY <2>3 DEF PutMySQL
  <2>4. CASE PutMySQLFails(p)  BY <2>4 DEF PutMySQLFails
  <2>5. CASE PutBump(p)  BY <2>5 DEF PutBump, BeginLoad
  <2>6. CASE PutBumpFails(p)  BY <2>6 DEF PutBumpFails
  <2>7. CASE PublishPut(p)  BY <2>7 DEF PublishPut, Publish
  <2>8. CASE PutLocal(p)  BY <2>8 DEF PutLocal, BeginLoad
  <2> QED  BY <1>1, <1>3, <2>1, <2>2, <2>3, <2>4, <2>5, <2>6, <2>7, <2>8 DEF PutStep
<1>4. ASSUME NEW p \in Pods, Restart(p) PROVE TypeOK'
  BY <1>4 DEF Restart
<1>5. ASSUME NEW p \in Pods, NEW q \in Pods, FetchForm(p, q) PROVE TypeOK'
  BY <1>5 DEF FetchForm
<1>7. ASSUME NEW p \in Pods, NEW E \in SUBSET Fields, BeginPut(p, E) \/ BeginPatch(p, E)
      PROVE  TypeOK'
  <2>1. Body(p) \in Settings /\ file[p] \in Settings
    BY DEF Body
  <2>2. PICK body \in Settings, to \in {"file", "local"} : Begin(p, E, body, to)
    BY <1>7, <2>1 DEF BeginPut, BeginPatch
  <2>3. abreast' \subseteq Pods
    BY <1>7 DEF BeginPut, BeginPatch
  <2> QED  BY <2>2, <2>3 DEF Begin
<1>6. CASE UNCHANGED vars
  BY <1>6 DEF vars
<1> QED  BY <1>2, <1>3, <1>4, <1>5, <1>6, <1>7 DEF Next

-----------------------------------------------------------------------------
\* A load by either task, before it is published.
LEMMA LoadStepInv ==
    ASSUME TypeOK, SyncInv, KeepInv, NEW p \in Pods, NEW k \in Tasks, Load(p, k)
    PROVE  SyncInv' /\ KeepInv'
<1> USE DEF TypeOK, Settings, Tasks, Steps, Loading, Go, Carry, Disturb, histVars, taskVars,
            SyncInv, KeepInv, PodInv, Seen, Noticed, Pooled, Current, Unchanged, Pending, SyncAt, PutAt
<1>1. CASE LoadFile(p, k)  BY <1>1 DEF LoadFile
<1>2. CASE LoadFileFails(p, k)  BY <1>2 DEF LoadFileFails
<1>3. CASE LoadMySQL(p, k)  BY <1>3 DEF LoadMySQL
<1>4. CASE LoadMySQLFails(p, k)  BY <1>4 DEF LoadMySQLFails
<1>5. CASE LoadStore(p, k)  BY <1>5 DEF LoadStore
<1>6. CASE LoadStoreFails(p, k)  BY <1>6 DEF LoadStoreFails
<1> QED  BY <1>1, <1>2, <1>3, <1>4, <1>5, <1>6 DEF Load

\* The loop reloads for a revision newer than the one it has noted.
LEMMA BehindLemma ==
    ASSUME TypeOK, SyncInv, NEW p \in Pods, TickReload(p)
    PROVE  last[p] < rev
<1>1. last[p] \in Nat /\ rev \in Nat
  BY DEF TypeOK
<1>2. last[p] <= rev
  BY DEF SyncInv, PodInv, Seen
<1>3. last[p] # rev
  BY DEF TickReload
<1> QED  BY <1>1, <1>2, <1>3

\* A step of the polling loop: what it notes is what it has loaded, or the pod
\* is blind.
LEMMA SyncStepInv ==
    ASSUME TypeOK, SyncInv, KeepInv, NEW p \in Pods, SyncStep(p)
    PROVE  SyncInv' /\ KeepInv'
<1> USE DEF TypeOK, Settings, Tasks, Steps, Loading, Go, Carry, Disturb, histVars, taskVars,
            SyncInv, KeepInv, PodInv, Seen, Noticed, Pooled, Current, Unchanged, Pending, SyncAt, PutAt
<1>1. CASE TickAdopt(p)  BY <1>1 DEF TickAdopt, Polls
<1>2. CASE TickReload(p)
  <2>1. /\ p \in pool /\ p \notin booting /\ last[p] < rev
        /\ at'[p]["sync"] = "load" /\ at'[p]["put"] = at[p]["put"]
        /\ \A q \in Pods \ {p} : at'[q] = at[q] /\ seen'[q] = seen[q]
        /\ \A q \in Pods : at'[q]["put"] = at[q]["put"]
        /\ UNCHANGED <<mysql, rev, file, mem, pool, last, val, edits, booting, abreast>>
        /\ seen'[p] = rev
    <3>1. p \in pool \ booting
      BY <1>2 DEF TickReload, Polls
    <3>2. last[p] < rev
      BY <1>2, BehindLemma
    <3>3. at' = [at EXCEPT ![p]["sync"] = "load"] /\ seen' = [seen EXCEPT ![p] = rev]
      BY <1>2 DEF TickReload
    <3>4. UNCHANGED <<mysql, rev, file, mem, pool, last, val, edits, booting, abreast>>
      BY <1>2 DEF TickReload
    <3> QED  BY <3>1, <3>2, <3>3, <3>4
  <2>2. /\ at[p]["put"] \in Loading => p \notin clean' /\ p \in blind'
        /\ p \notin clean' => p \in blind'
        /\ \A q \in Pods \ {p} : (q \in clean' <=> q \in clean) /\ (q \in blind' <=> q \in blind)
    BY <1>2 DEF TickReload
  <2>3. Pending' <=> Pending
    BY <2>1
  <2>4. KeepInv'
    BY <2>1
  <2>5. ASSUME NEW q \in Pods PROVE Seen(q)' /\ Noticed(q)' /\ Pooled(q)'
    BY <2>1, <2>2
  <2>6. ASSUME NEW q \in Pods PROVE Current(q)'
    BY <2>1, <2>2, <2>3
  <2> QED  BY <2>4, <2>5, <2>6
<1>3. CASE PublishSync(p)  BY <1>3 DEF PublishSync, Publish, Noted
<1> QED  BY <1>1, <1>2, <1>3, LoadStepInv DEF SyncStep, Tasks

\* A step of a save: it writes MySQL before the revision, and a save that is
\* past MySQL without a revision leaves every pod blind.
LEMMA PutStepInv ==
    ASSUME TypeOK, SyncInv, KeepInv, NEW p \in Pods, PutStep(p)
    PROVE  SyncInv' /\ KeepInv'
<1> USE DEF TypeOK, Settings, Tasks, Steps, Loading, Go, Carry, Disturb, histVars, taskVars,
            SyncInv, KeepInv, PodInv, Seen, Noticed, Pooled, Current, Unchanged, Pending, SyncAt, PutAt
<1>1. CASE PutFile(p)  BY <1>1 DEF PutFile
<1>2. CASE PutFileFails(p)  BY <1>2 DEF PutFileFails
<1>3. CASE PutMySQL(p)  BY <1>3 DEF PutMySQL
<1>4. CASE PutMySQLFails(p)  BY <1>4 DEF PutMySQLFails
<1>5. CASE PutBump(p)  BY <1>5 DEF PutBump, BeginLoad
<1>6. CASE PutBumpFails(p)  BY <1>6 DEF PutBumpFails
<1>7. CASE PublishPut(p)  BY <1>7 DEF PublishPut, Publish
<1>8. CASE PutLocal(p)  BY <1>8 DEF PutLocal, BeginLoad
<1> QED  BY <1>1, <1>2, <1>3, <1>4, <1>5, <1>6, <1>7, <1>8, LoadStepInv DEF PutStep, Tasks

\* A pod that has seen the current revision and is not blind is up to date.
LEMMA SyncedLemma ==
    ASSUME TypeOK, SyncInv, NEW p \in Pods \ blind, Synced(p)
    PROVE  mem[p] = mysql /\ file[p] = mysql
<1>1. seen[p] = rev
  BY DEF TypeOK, SyncInv, PodInv, Seen, Synced, SyncAt
<1> QED
  BY <1>1 DEF TypeOK, SyncInv, PodInv, Current, Unchanged, Synced, SyncAt, PutAt, Loading

\* A form that counts as abreast has MySQL's settings.
LEMMA FetchFormInv ==
    ASSUME TypeOK, SyncInv, KeepInv, NEW p \in Pods, NEW q \in Pods, FetchForm(p, q)
    PROVE  SyncInv' /\ KeepInv'
<1>1. SyncInv'
  BY DEF FetchForm, TypeOK, Tasks, Steps, Loading, Go, Carry,
         SyncInv, PodInv, Seen, Noticed, Pooled, Current, Unchanged, Pending, SyncAt, PutAt
<1>2. ASSUME p \in abreast' PROVE mem[q] = mysql
  BY <1>2, SyncedLemma DEF FetchForm, UpToDate
<1>3. KeepInv'
  BY <1>2 DEF FetchForm, TypeOK, Tasks, Go, Carry, KeepInv, PutAt
<1> QED  BY <1>1, <1>3

\* A save begins from MySQL's settings when it counts as abreast.
LEMMA BeginInv ==
    ASSUME TypeOK, SyncInv, KeepInv, NEW p \in Pods, NEW E \in SUBSET Fields, NEW body,
           NEW to \in {"file", "local"}, Begin(p, E, body, to),
           PutAt(p) \in {"idle", "form"}, to = "local" => p \notin pool,
           abreast' \ {p} = abreast \ {p},
           p \in abreast' => \A f \in Fields : body[f] = mysql[f]
    PROVE  SyncInv' /\ KeepInv'
<1>1. SyncInv'
  <2>1. to = "local" => p \in blind
    BY DEF Begin, SyncInv, PodInv, Pooled
  <2> QED
    BY <2>1 DEF Begin, TypeOK, Tasks, Steps, Loading, Go, Carry,
         SyncInv, PodInv, Seen, Noticed, Pooled, Current, Unchanged, Pending, SyncAt, PutAt
<1>2. KeepInv'
  BY DEF Begin, TypeOK, Tasks, Go, Carry, KeepInv, PutAt
<1> QED  BY <1>1, <1>2

LEMMA BeginPutInv ==
    ASSUME TypeOK, SyncInv, KeepInv, NEW p \in Pods, NEW E \in SUBSET Fields,
           BeginPut(p, E) \/ BeginPatch(p, E)
    PROVE  SyncInv' /\ KeepInv'
<1>1. CASE BeginPut(p, E)
  <2>1. p \in abreast' => \A f \in Fields : Body(p)[f] = mysql[f]
    BY <1>1, SyncedLemma DEF BeginPut, UpToDate, Body, KeepInv, PutAt
  <2>2. Begin(p, E, Body(p), "file") /\ PutAt(p) = "form" /\ abreast' \ {p} = abreast \ {p}
    BY <1>1 DEF BeginPut, PutAt
  <2> QED
    BY <2>1, <2>2, BeginInv
<1>2. CASE BeginPatch(p, E)
  <2>1. p \in abreast' => \A f \in Fields : file[p][f] = mysql[f]
    BY <1>2, SyncedLemma DEF BeginPatch, UpToDate
  <2>2. PutAt(p) = "idle" /\ abreast' \ {p} = abreast \ {p}
    BY <1>2 DEF BeginPatch, PutAt
  <2>3. CASE p \in pool
    <3>1. Begin(p, E, file[p], "file")
      BY <1>2, <2>3 DEF BeginPatch
    <3> QED
      BY <2>1, <2>2, <3>1, BeginInv
  <2>4. CASE p \notin pool
    <3>1. Begin(p, E, file[p], "local")
      BY <1>2, <2>4 DEF BeginPatch
    <3> QED
      BY <2>1, <2>2, <2>4, <3>1, BeginInv
  <2> QED
    BY <2>3, <2>4
<1> QED
  BY <1>1, <1>2

\* A restart forgets what the pod had seen, and disturbs everybody if it
\* interrupts a save before its bump.
LEMMA RestartInv ==
    ASSUME TypeOK, SyncInv, KeepInv, NEW p \in Pods, Restart(p)
    PROVE  SyncInv' /\ KeepInv'
  BY DEF Restart, TypeOK, Settings, Tasks, Steps, Loading,
         SyncInv, KeepInv, PodInv, Seen, Noticed, Pooled, Current, Unchanged, Pending, SyncAt, PutAt

\* The invariant holds in every state.
LEMMA IInvHolds == Spec => []IInv
<1>1. ASSUME IInv, [Next]_vars PROVE IInv'
  <2>1. TypeOK'
    BY <1>1, TypeStep DEF IInv
  <2>2. CASE Next
    BY <1>1, <2>1, <2>2, SyncStepInv, PutStepInv, FetchFormInv, BeginPutInv, RestartInv
       DEF Next, IInv
  <2>3. CASE UNCHANGED vars
    BY <1>1, <2>1, <2>3 DEF vars, histVars, taskVars, IInv, SyncInv, KeepInv, PodInv, Seen,
       Noticed, Pooled, Current, Unchanged, Pending, SyncAt, PutAt
  <2> QED  BY <1>1, <2>2, <2>3
<1> QED  BY InitIInv, <1>1, PTL DEF Spec

-----------------------------------------------------------------------------
\* The settings, the files, the tasks and the histories stay within their types.
THEOREM TypeCorrect == Spec => []TypeOK
<1>1. IInv => TypeOK
  BY DEF IInv
<1> QED  BY IInvHolds, <1>1, PTL

\* A pod whose loop has seen the current revision runs with MySQL's settings,
\* unless something the history names made it blind.
THEOREM SyncedIsCurrentHolds == Spec => []SyncedIsCurrent
<1>1. IInv => SyncedIsCurrent
  BY SyncedLemma DEF IInv, SyncedIsCurrent
<1> QED  BY IInvHolds, <1>1, PTL

\* Only a save that writes MySQL changes its settings.
LEMMA Writers ==
    ASSUME Next, mysql' # mysql
    PROVE  \E q \in Pods : mysql' = val[q]["put"] /\ (PutMySQL(q) \/ PutMySQLFails(q))
<1>1. PICK p \in Pods : \/ SyncStep(p) \/ PutStep(p) \/ Restart(p)
                       \/ \E q \in Pods : FetchForm(p, q)
                       \/ \E E \in SUBSET Fields : BeginPut(p, E) \/ BeginPatch(p, E)
  BY DEF Next
<1>2. ~(SyncStep(p) \/ Restart(p) \/ \E q \in Pods : FetchForm(p, q))
  BY DEF SyncStep, Restart, FetchForm, TickAdopt, TickReload, PublishSync, Load, LoadFile,
         LoadFileFails, LoadMySQL, LoadMySQLFails, LoadStore, LoadStoreFails
<1>3. ~\E E \in SUBSET Fields : BeginPut(p, E) \/ BeginPatch(p, E)
  BY DEF BeginPut, BeginPatch, Begin
<1>4. PutMySQL(p) \/ PutMySQLFails(p)
  BY <1>1, <1>2, <1>3
     DEF PutStep, PutFile, PutFileFails, PutLocal, PutBump, PutBumpFails, PublishPut, Load,
         LoadFile, LoadFileFails, LoadMySQL, LoadMySQLFails, LoadStore, LoadStoreFails
<1> QED
  BY <1>4 DEF PutMySQL, PutMySQLFails

\* A save whose form was up to date, that an up-to-date pod serves and that met no
\* other one keeps the other fields.
THEOREM OthersKeptHolds == Spec => OthersKept
<1>1. IInv /\ [Next]_vars
        => [\A p \in abreast : at[p]["put"] = "mysql" /\ at'[p]["put"] # "mysql" =>
              \A f \in Fields \ edits[p] : mysql'[f] = mysql[f]]_vars
  <2> SUFFICES ASSUME IInv, [Next]_vars, NEW p \in abreast, at[p]["put"] = "mysql",
                      NEW f \in Fields \ edits[p], mysql' # mysql, at'[p]["put"] # "mysql"
               PROVE  mysql'[f] = mysql[f]
    BY DEF vars
  <2>1. PICK q \in Pods : mysql' = val[q]["put"] /\ (PutMySQL(q) \/ PutMySQLFails(q))
    BY Writers DEF vars
  <2>2. q = p
    BY <2>1 DEF PutMySQL, PutMySQLFails, Go, IInv, TypeOK, Tasks
  <2> QED
    BY <2>1, <2>2 DEF IInv, KeepInv, PutAt
<1> QED  BY IInvHolds, <1>1, PTL DEF Spec, OthersKept

-----------------------------------------------------------------------------
(***************************************************************************)
(* The orders to a mesh client.  The device has tried the completed order,  *)
(* also in a copy of the actions, and what it is about to acknowledge.      *)
(***************************************************************************)
TriedInv ==
    /\ completed \in tried \cup {NoCommand}
    /\ \A a \in oldActions : a.completed \in tried \cup {NoCommand}
    /\ \A x \in Conns :
        /\ conn[x].id \in tried \cup {NoCommand}
        /\ conn[x].completed \in tried \cup {NoCommand}
        /\ conn[x].does = "order" /\ conn[x].at = "act" => conn[x].pending \in Commands
    /\ device.at = "ordered" => device.order \in Commands
    /\ device.at = "done" => device.order \in tried

(***************************************************************************)
(* Past its check a report has read an unrevoked record; once a revocation  *)
(* is sealed no such report is left and none such can be read.              *)
(***************************************************************************)
SealInv ==
    /\ \A x \in DeviceConns :
        /\ conn[x].does \in {"nothing", "report"}
        /\ conn[x].at \in {"act", "rec"} => ~conn[x].revoked
    /\ \A x \in AdminConns :
        conn[x].does # "report" /\ (conn[x].at = "rec" => conn[x].does = "revoke")
    /\ sealed => record.revoked /\ ~ReportUnderWay /\ \A r \in oldRecords : r.revoked

MeshInv == MeshTypeOK /\ TriedInv /\ SealInv

HandlerStep(x) ==
    \/ LoadRecord(x) \/ RefuseReport(x) \/ WriteActions(x) \/ WriteReport(x)
    \/ \E a \in Documents :
          TakeReport(x, a) \/ ReadToRevoke(x, a) \/ RefuseOrder(x, a) \/ TakeOrder(x, a)
    \/ WriteRevocation(x) \/ LoadRecordFails(x) \/ WriteActionsFails(x) \/ WriteRecordFails(x)

\* The initial states satisfy the invariant.
LEMMA MeshInitInv == MeshInit => MeshInv
<1> SUFFICES ASSUME MeshInit PROVE MeshInv
  OBVIOUS
<1> USE MeshAssumption DEF MeshInit, Conns
<1>0. /\ Free \in ConnStates /\ NoCommand \in Orders
      /\ 0 \in 0..MaxMishaps /\ 0 \in 0..MaxOrders
  BY DEF Free, ConnStates, Orders
<1>1. MeshTypeOK
  BY <1>0 DEF MeshTypeOK, Records
<1>2. TriedInv
  BY DEF TriedInv, Free
<1>3. SealInv
  BY DEF SealInv, Free
<1> QED
  BY <1>1, <1>2, <1>3 DEF MeshInv

\* A conn may be set to any of its states.
LEMMA ConnTypes ==
    ASSUME MeshTypeOK, NEW x \in Conns
    PROVE  /\ conn[x] \in ConnStates
           /\ Free \in ConnStates
           /\ NoCommand \in Orders
           /\ \A c \in ConnStates : [conn EXCEPT ![x] = c] \in [Conns -> ConnStates]
  BY DEF MeshTypeOK, ConnStates, Free, Orders

\* The end of a handler keeps the types.
LEMMA AnswerTypes ==
    ASSUME MeshTypeOK, NEW x \in Conns, NEW c \in Orders, Answer(x, c)
    PROVE  /\ conn' \in [Conns -> ConnStates]
           /\ device' \in [at : {"off", "idle", "asking", "ordered", "done", "acking"},
                           order : Orders, via : DeviceConns \cup {NoConn}]
           /\ pending' \in Orders
<1>1. conn' \in [Conns -> ConnStates]
  BY ConnTypes DEF Answer
<1> QED
  BY <1>1 DEF Answer, Device, MeshTypeOK, Orders

LEMMA FailTypes ==
    ASSUME MeshTypeOK, NEW x \in Conns, Fail(x)
    PROVE  /\ conn' \in [Conns -> ConnStates]
           /\ device' \in [at : {"off", "idle", "asking", "ordered", "done", "acking"},
                           order : Orders, via : DeviceConns \cup {NoConn}]
<1>1. conn' \in [Conns -> ConnStates]
  BY ConnTypes DEF Fail
<1> QED
  BY <1>1, ConnTypes DEF Fail, Device, MeshTypeOK

\* What Redis keeps of an older document is one that the store had.
LEMMA MirrorTypes ==
    ASSUME MeshTypeOK
    PROVE  /\ Actions \in Documents /\ NoActions \in Documents
           /\ RecordsMirrored => oldRecords' \subseteq Records /\ mishaps' \in 0..MaxMishaps
           /\ ActionsMirrored => oldActions' \subseteq Documents /\ mishaps' \in 0..MaxMishaps
           /\ \A a : ReadsActions(a) => a \in Documents /\ mishaps' \in 0..MaxMishaps
           /\ Mishap => mishaps' \in 0..MaxMishaps
<1>1. Mishap => mishaps' \in 0..MaxMishaps
  BY MeshAssumption DEF Mishap, MeshTypeOK
<1>2. Actions \in Documents /\ NoActions \in Documents
  BY DEF Actions, NoActions, Documents, MeshTypeOK, Orders
<1> QED
  BY <1>1, <1>2 DEF RecordsMirrored, ActionsMirrored, ReadsActions, MeshTypeOK

\* A write of the actions stores what the handler carries.
LEMMA StoreTypes ==
    ASSUME MeshTypeOK, NEW x \in Conns, StoreActions(x)
    PROVE  pending' \in Orders /\ completed' \in Orders /\ dropped' \subseteq Commands
<1>1. conn[x].pending \in Orders /\ conn[x].completed \in Orders
  BY ConnTypes DEF ConnStates
<1>2. {pending} \ {NoCommand, conn[x].pending, conn[x].id} \subseteq Commands
  BY DEF MeshTypeOK, Orders
<1> QED
  BY <1>1, <1>2 DEF StoreActions, MeshTypeOK

\* A step of a handler keeps the types.
LEMMA HandlerTypes ==
    ASSUME MeshTypeOK, TriedInv, NEW x \in Conns, HandlerStep(x)
    PROVE  MeshTypeOK'
<1> USE DEF meshHist, kvVars
<1>0. NoCommand \in Orders /\ conn[x] \in ConnStates
  BY ConnTypes
<1>1. CASE LoadRecord(x)
  <2>1. PICK r \in Records :
          conn' = [conn EXCEPT ![x] = [@ EXCEPT !.at = "actions", !.revoked = r.revoked]]
    BY <1>1 DEF LoadRecord, MeshTypeOK
  <2>2. [conn[x] EXCEPT !.at = "actions", !.revoked = r.revoked] \in ConnStates
    BY <1>0 DEF ConnStates, Records
  <2> QED
    BY <1>1, <2>1, <2>2, ConnTypes DEF LoadRecord, MeshTypeOK
<1>2. CASE RefuseReport(x)
  BY <1>0, <1>2, AnswerTypes DEF RefuseReport, MeshTypeOK
<1>3. ASSUME NEW a \in Documents, TakeReport(x, a) PROVE MeshTypeOK'
  <2>1. [conn[x] EXCEPT !.at = IF Completes(x, a) THEN "act" ELSE "rec",
                        !.pending = IF Completes(x, a) THEN NoCommand ELSE a.pending,
                        !.completed = IF Completes(x, a) THEN a.pending ELSE a.completed]
          \in ConnStates
    BY <1>0 DEF ConnStates, Documents
  <2>2. mishaps' \in 0..MaxMishaps
    BY <1>3, MirrorTypes DEF TakeReport
  <2> QED
    BY <1>3, <2>1, <2>2, ConnTypes DEF TakeReport, MeshTypeOK
<1>4. CASE WriteActions(x)
  <2>1. [conn[x] EXCEPT !.at = "rec"] \in ConnStates
    BY <1>0 DEF ConnStates
  <2>2. conn' \in [Conns -> ConnStates]
    BY <1>4, <2>1, ConnTypes DEF WriteActions, Proceed, MeshTypeOK
  <2>3. pending' \in Orders /\ completed' \in Orders /\ dropped' \subseteq Commands
    BY <1>4, StoreTypes DEF WriteActions
  <2>4. oldActions' \subseteq Documents /\ mishaps' \in 0..MaxMishaps
    BY <1>4, MirrorTypes DEF WriteActions
  <2>5. told' \subseteq Commands
    BY <1>4 DEF WriteActions, MeshTypeOK, TriedInv
  <2> QED
    BY <1>4, <2>2, <2>3, <2>4, <2>5 DEF WriteActions, MeshTypeOK
<1>5. CASE WriteReport(x)
  <2>1. conn[x].pending \in Orders /\ conn[x].revoked \in BOOLEAN
    BY <1>0 DEF ConnStates
  <2>2. oldRecords' \subseteq Records /\ mishaps' \in 0..MaxMishaps
    BY <1>5, MirrorTypes DEF WriteReport
  <2> QED
    BY <1>5, <2>1, <2>2, AnswerTypes DEF WriteReport, MeshTypeOK, Records
<1>6. ASSUME NEW a \in Documents, ReadToRevoke(x, a) PROVE MeshTypeOK'
  <2>1. [conn[x] EXCEPT !.at = "rec", !.completed = a.completed] \in ConnStates
    BY <1>0 DEF ConnStates, Documents
  <2>2. mishaps' \in 0..MaxMishaps
    BY <1>6, MirrorTypes DEF ReadToRevoke
  <2> QED
    BY <1>6, <2>1, <2>2, ConnTypes DEF ReadToRevoke, MeshTypeOK
<1>7. ASSUME NEW a \in Documents, RefuseOrder(x, a) PROVE MeshTypeOK'
  <2>1. mishaps' \in 0..MaxMishaps
    BY <1>7, MirrorTypes DEF RefuseOrder
  <2> QED
    BY <1>0, <1>7, <2>1, AnswerTypes DEF RefuseOrder, MeshTypeOK
<1>8. ASSUME NEW a \in Documents, TakeOrder(x, a) PROVE MeshTypeOK'
  <2>1. issued + 1 \in Orders /\ issued' \in 0..MaxOrders
    BY <1>8, MeshAssumption DEF TakeOrder, MeshTypeOK, Orders, Commands
  <2>2. [conn[x] EXCEPT !.at = "act", !.pending = issued + 1, !.completed = a.completed]
          \in ConnStates
    BY <1>0, <2>1 DEF ConnStates, Documents
  <2>3. mishaps' \in 0..MaxMishaps
    BY <1>8, MirrorTypes DEF TakeOrder
  <2> QED
    BY <1>8, <2>1, <2>2, <2>3, ConnTypes DEF TakeOrder, MeshTypeOK
<1>9. CASE WriteRevocation(x)
  <2>1. [conn[x] EXCEPT !.at = "act"] \in ConnStates
    BY <1>0 DEF ConnStates
  <2>2. sealed' \in BOOLEAN
    BY <1>9 DEF WriteRevocation, ReportUnderWay, MeshTypeOK
  <2>3. oldRecords' \subseteq Records /\ mishaps' \in 0..MaxMishaps
    BY <1>9, MirrorTypes DEF WriteRevocation
  <2> QED
    BY <1>9, <2>1, <2>2, <2>3, ConnTypes DEF WriteRevocation, Proceed, MeshTypeOK, Records
<1>10. CASE WriteActionsFails(x)
  <2>1. pending' \in Orders /\ completed' \in Orders /\ dropped' \subseteq Commands
    BY <1>10, StoreTypes DEF WriteActionsFails, MeshTypeOK
  <2>2. oldActions' \subseteq Documents /\ mishaps' \in 0..MaxMishaps
    BY <1>10, MirrorTypes DEF WriteActionsFails, MeshTypeOK
  <2> QED
    BY <1>10, <2>1, <2>2, FailTypes DEF WriteActionsFails, MeshTypeOK
<1>11. CASE WriteRecordFails(x)
  <2>1. conn[x].revoked \in BOOLEAN
    BY <1>0 DEF ConnStates
  <2>2. record' \in Records /\ oldRecords' \subseteq Records
    BY <1>11, <2>1 DEF WriteRecordFails, MeshTypeOK, Records
  <2>3. mishaps' \in 0..MaxMishaps
    BY <1>11, MirrorTypes DEF WriteRecordFails
  <2> QED
    BY <1>11, <2>2, <2>3, FailTypes DEF WriteRecordFails, MeshTypeOK
<1>12. CASE LoadRecordFails(x)
  BY <1>12, FailTypes, MirrorTypes DEF LoadRecordFails, MeshTypeOK
<1> QED
  BY <1>1, <1>2, <1>3, <1>4, <1>5, <1>6, <1>7, <1>8, <1>9, <1>10, <1>11, <1>12 DEF HandlerStep

\* What a write of the actions leaves of its conn.
LEMMA WriteActionsConn ==
    ASSUME MeshTypeOK, NEW x \in Conns, WriteActions(x), NEW y \in Conns
    PROVE  \/ conn'[y] = conn[y] /\ y # x
           \/ /\ conn'[y].does = "nothing" /\ conn'[y].at = "load"
              /\ conn'[y].id = NoCommand /\ conn'[y].completed = NoCommand
           \/ /\ y = x /\ conn'[y].does = conn[y].does /\ conn'[y].at = "rec"
              /\ conn'[y].does = "report"
              /\ conn'[y].id = conn[y].id /\ conn'[y].completed = conn[y].completed
              /\ conn'[y].revoked = conn[y].revoked
<1>1. CASE conn[x].does = "report"
  BY <1>1 DEF WriteActions, Proceed, MeshTypeOK, ConnStates
<1>2. CASE conn[x].does # "report"
  BY <1>2 DEF WriteActions, Free, MeshTypeOK
<1> QED
  BY <1>1, <1>2

\* A step of a handler moves no order past the device: it acknowledges what was tried.
LEMMA HandlerTried ==
    ASSUME MeshTypeOK, TriedInv, NEW x \in Conns, HandlerStep(x)
    PROVE  TriedInv'
<1> USE DEF TriedInv, MeshTypeOK, meshHist, kvVars
<1>0. conn[x].id \in tried \cup {NoCommand} /\ conn[x].completed \in tried \cup {NoCommand}
  OBVIOUS
<1>a. ASSUME NEW c \in Orders, Answer(x, c), UNCHANGED <<completed, oldActions, tried>>
      PROVE  TriedInv'
  <2>1. \A y \in Conns : conn'[y] = conn[y] \/ conn'[y] = Free
    BY <1>a DEF Answer
  <2>2. device'.at = "ordered" => device'.order \in Commands
    BY <1>a DEF Answer, Device, Orders
  <2>3. device'.at = "done" => device' = device
    BY <1>a DEF Answer, Device
  <2> QED
    BY <1>a, <2>1, <2>2, <2>3 DEF Free
<1>b. ASSUME Fail(x), completed' \in tried \cup {NoCommand}, UNCHANGED tried,
             \A a \in oldActions' : a.completed \in tried \cup {NoCommand}
      PROVE  TriedInv'
  <2>1. \A y \in Conns : conn'[y] = conn[y] \/ conn'[y] = Free
    BY <1>b DEF Fail
  <2>2. device'.at \in {"ordered", "done"} => device' = device
    BY <1>b DEF Fail, Device
  <2> QED
    BY <1>b, <2>1, <2>2 DEF Free
<1>c. ASSUME NEW a, ReadsActions(a) PROVE a.completed \in tried \cup {NoCommand}
  BY <1>c DEF ReadsActions, Actions, NoActions
<1>d. Actions.completed \in tried \cup {NoCommand}
  BY DEF Actions
<1>1. CASE LoadRecord(x)
  BY <1>1 DEF LoadRecord
<1>2. CASE RefuseReport(x)
  BY <1>2, <1>a, ConnTypes DEF RefuseReport
<1>3. ASSUME NEW a \in Documents, TakeReport(x, a) PROVE TriedInv'
  <2>1. a.completed \in tried \cup {NoCommand}
    BY <1>3, <1>c DEF TakeReport
  <2> QED
    BY <1>3, <2>1 DEF TakeReport, Completes, Reading
<1>4. CASE WriteActions(x)
  <2>1. completed' = conn[x].completed /\ UNCHANGED <<tried, device>>
    BY <1>4 DEF WriteActions, StoreActions
  <2>2. ASSUME NEW y \in Conns
        PROVE  /\ conn'[y].id \in tried \cup {NoCommand}
               /\ conn'[y].completed \in tried \cup {NoCommand}
               /\ conn'[y].does = "order" /\ conn'[y].at = "act" => conn'[y].pending \in Commands
    BY <1>4, WriteActionsConn
  <2>3. \A a \in oldActions' : a.completed \in tried \cup {NoCommand}
    BY <1>4, <1>d DEF WriteActions, ActionsMirrored
  <2> QED
    BY <1>0, <2>1, <2>2, <2>3
<1>5. CASE WriteReport(x)
  <2>1. conn[x].pending \in Orders
    BY ConnTypes DEF ConnStates
  <2> QED
    BY <1>5, <1>a, <2>1 DEF WriteReport
<1>6. ASSUME NEW a \in Documents, ReadToRevoke(x, a) PROVE TriedInv'
  <2>1. a.completed \in tried \cup {NoCommand}
    BY <1>6, <1>c DEF ReadToRevoke
  <2> QED
    BY <1>6, <2>1 DEF ReadToRevoke, Reading
<1>7. ASSUME NEW a \in Documents, RefuseOrder(x, a) PROVE TriedInv'
  BY <1>7, <1>a, ConnTypes DEF RefuseOrder
<1>8. ASSUME NEW a \in Documents, TakeOrder(x, a) PROVE TriedInv'
  <2>1. a.completed \in tried \cup {NoCommand}
    BY <1>8, <1>c DEF TakeOrder
  <2>2. issued + 1 \in Commands
    BY <1>8, MeshAssumption DEF TakeOrder, Commands
  <2> QED
    BY <1>8, <2>1, <2>2 DEF TakeOrder
<1>9. CASE WriteRevocation(x)
  BY <1>9 DEF WriteRevocation, Proceed
<1>10. CASE WriteActionsFails(x)
  <2>1. completed' \in tried \cup {NoCommand}
    BY <1>10, <1>0 DEF WriteActionsFails, StoreActions
  <2>2. \A a \in oldActions' : a.completed \in tried \cup {NoCommand}
    BY <1>10, <1>d DEF WriteActionsFails
  <2> QED
    BY <1>10, <1>b, <2>1, <2>2 DEF WriteActionsFails
<1>11. CASE WriteRecordFails(x)
  BY <1>11, <1>b DEF WriteRecordFails
<1>12. CASE LoadRecordFails(x)
  BY <1>12, <1>b DEF LoadRecordFails
<1> QED
  BY <1>1, <1>2, <1>3, <1>4, <1>5, <1>6, <1>7, <1>8, <1>9, <1>10, <1>11, <1>12 DEF HandlerStep

\* A handler that answers or fails leaves no report behind that was not there.
LEMMA AnswerSealed ==
    ASSUME MeshTypeOK, SealInv, NEW x \in Conns, NEW c, Answer(x, c) \/ Fail(x),
           UNCHANGED sealed, sealed => record'.revoked /\ \A r \in oldRecords' : r.revoked
    PROVE  SealInv'
<1>1. \A y \in Conns : conn'[y] = conn[y] \/ conn'[y] = Free
  BY DEF Answer, Fail, MeshTypeOK
<1> QED
  BY <1>1 DEF SealInv, ReportUnderWay, Conns, Free

\* A step of a handler lets no report past a sealed revocation.
LEMMA HandlerSealed ==
    ASSUME MeshTypeOK, SealInv, NEW x \in Conns, HandlerStep(x)
    PROVE  SealInv'
<1> USE MeshAssumption DEF SealInv, MeshTypeOK, meshHist, kvVars, Conns, ReportUnderWay
<1>1. CASE LoadRecord(x)
  <2>1. PICK r \in {record} \cup oldRecords :
          conn' = [conn EXCEPT ![x].at = "actions", ![x].revoked = r.revoked]
    BY <1>1 DEF LoadRecord
  <2>2. sealed => r.revoked
    BY <2>1
  <2> QED
    BY <1>1, <2>1, <2>2 DEF LoadRecord
<1>2. CASE RefuseReport(x)
  BY <1>2, AnswerSealed DEF RefuseReport
<1>3. ASSUME NEW a \in Documents, TakeReport(x, a) PROVE SealInv'
  BY <1>3 DEF TakeReport, Reading, Accepted
<1>4. CASE WriteActions(x)
  <2>1. UNCHANGED <<record, oldRecords, sealed>> /\ conn[x].at = "act"
    BY <1>4 DEF WriteActions
  <2>2. ASSUME NEW y \in Conns
        PROVE  /\ conn'[y].does \in {"nothing", conn[y].does}
               /\ \/ conn'[y].at = "load"
                  \/ conn[y].at # "load" /\ conn'[y].revoked = conn[y].revoked
               /\ conn'[y].at \in {"act", "rec"} => conn[y].at \in {"act", "rec"}
               /\ conn'[y].at = "rec" =>
                    \/ conn[y].at = "rec" /\ conn'[y].does = conn[y].does
                    \/ conn[y].does = "report"
    BY <1>4, <2>1, WriteActionsConn
  <2> QED
    BY <2>1, <2>2
<1>5. CASE WriteReport(x)
  <2>1. x \in DeviceConns
    BY <1>5 DEF WriteReport
  <2>2. ~sealed /\ UNCHANGED sealed
    BY <1>5, <2>1 DEF WriteReport
  <2> QED
    BY <1>5, <2>2, AnswerSealed DEF WriteReport
<1>6. ASSUME NEW a \in Documents, ReadToRevoke(x, a) PROVE SealInv'
  BY <1>6 DEF ReadToRevoke, Reading
<1>7. ASSUME NEW a \in Documents, RefuseOrder(x, a) PROVE SealInv'
  BY <1>7, AnswerSealed DEF RefuseOrder
<1>8. ASSUME NEW a \in Documents, TakeOrder(x, a) PROVE SealInv'
  BY <1>8 DEF TakeOrder, Reading
<1>9. CASE WriteRevocation(x)
  <2>1. sealed' => record'.revoked /\ \A r \in oldRecords' : r.revoked
    BY <1>9 DEF WriteRevocation, RecordsMirrored
  <2> QED
    BY <1>9, <2>1 DEF WriteRevocation, Proceed
<1>10. CASE WriteActionsFails(x)
  BY <1>10, AnswerSealed DEF WriteActionsFails
<1>11. CASE WriteRecordFails(x)
  <2>1. sealed => conn[x].does = "revoke"
    BY <1>11 DEF WriteRecordFails
  <2>2. sealed => record'.revoked /\ \A r \in oldRecords' : r.revoked
    <3>1. CASE UNCHANGED <<record, oldRecords>>
      BY <3>1
    <3>2. CASE /\ record' = [record EXCEPT !.revoked = conn[x].revoked \/ conn[x].does = "revoke"]
               /\ oldRecords' = oldRecords \cup {record}
      BY <3>2, <2>1 DEF Records
    <3> QED
      BY <1>11, <3>1, <3>2 DEF WriteRecordFails
  <2>3. UNCHANGED sealed /\ Fail(x)
    BY <1>11 DEF WriteRecordFails
  <2> QED
    BY <2>2, <2>3, AnswerSealed
<1>12. CASE LoadRecordFails(x)
  BY <1>12, AnswerSealed DEF LoadRecordFails
<1> QED
  BY <1>1, <1>2, <1>3, <1>4, <1>5, <1>6, <1>7, <1>8, <1>9, <1>10, <1>11, <1>12 DEF HandlerStep

\* A step of the agent preserves the invariant.
LEMMA DeviceInv ==
    ASSUME MeshInv, DeviceStep \/ AcknowledgeLost \/ GiveUpReport \/ RestartOrdered
    PROVE  MeshInv'
<1> USE MeshAssumption DEF MeshInv, MeshTypeOK, TriedInv, SealInv, ReportUnderWay, meshHist, kvVars,
                           Device, Mishap, Orders, Conns
<1>1. CASE Join
  BY <1>1 DEF Join, NoCommand
<1>2. CASE Execute
  BY <1>2 DEF Execute
<1>3. ASSUME NEW x \in DeviceConns, Ask(x) \/ Acknowledge(x) PROVE MeshInv'
  <2>1. PICK id \in tried \cup {NoCommand} : Call(x, "report", id)
    BY <1>3 DEF Ask, Acknowledge
  <2>2. [Free EXCEPT !.does = "report", !.id = id] \in ConnStates
    BY <2>1 DEF Free, ConnStates
  <2>3. /\ [Free EXCEPT !.does = "report", !.id = id].does = "report"
        /\ [Free EXCEPT !.does = "report", !.id = id].at = "load"
        /\ [Free EXCEPT !.does = "report", !.id = id].id = id
        /\ [Free EXCEPT !.does = "report", !.id = id].completed = NoCommand
    BY DEF Free
  <2>4. \A y \in Conns : conn'[y] = conn[y] \/
            (y = x /\ conn'[y] = [Free EXCEPT !.does = "report", !.id = id])
    BY <2>1 DEF Call
  <2>5. /\ conn' \in [Conns -> ConnStates]
        /\ device' \in [at : {"asking", "acking"}, order : Orders, via : DeviceConns]
        /\ UNCHANGED <<issue, kvVars, issued, mishaps, meshHist>>
    BY <1>3, <2>1, <2>2 DEF Call, Ask, Acknowledge
  <2>6. ASSUME NEW y \in Conns
        PROVE  \/ conn'[y] = conn[y]
               \/ /\ y = x /\ conn'[y].does = "report" /\ conn'[y].at = "load"
                  /\ conn'[y].id = id /\ conn'[y].completed = NoCommand
    BY <2>3, <2>4
  <2>7. TriedInv'
    BY <2>1, <2>5, <2>6
  <2>8. SealInv'
    BY <2>5, <2>6
  <2> QED
    BY <2>5, <2>7, <2>8
<1>4. CASE AcknowledgeLost
  BY <1>4 DEF AcknowledgeLost
<1>5. CASE GiveUpReport
  BY <1>5 DEF GiveUpReport
<1>6. CASE RestartOrdered
  BY <1>6 DEF RestartOrdered
<1> QED
  BY <1>1, <1>2, <1>3, <1>4, <1>5, <1>6 DEF DeviceStep

\* So does a request of an administrator.
LEMMA AdminInv ==
    ASSUME MeshInv, NEW x \in AdminConns, Admin(x)
    PROVE  MeshInv'
<1> USE MeshAssumption DEF MeshInv, MeshTypeOK, TriedInv, SealInv, ReportUnderWay, meshHist, kvVars,
                           Orders, Conns
<1>1. PICK does \in {"revoke", "order"} : Call(x, does, NoCommand)
  BY DEF Admin, CallRevoke, CallOrder
<1>2. UNCHANGED <<issue, kvVars, issued, device, mishaps, meshHist>>
  BY DEF Admin, CallRevoke, CallOrder
<1>3. [Free EXCEPT !.does = does, !.id = NoCommand] \in ConnStates
  BY DEF Free, ConnStates
<1> QED
  BY <1>1, <1>2, <1>3 DEF Call, Free

\* Every step preserves the invariant.
LEMMA MeshNextInv == MeshInv /\ [MeshNext]_meshVars => MeshInv'
<1> SUFFICES ASSUME MeshInv, [MeshNext]_meshVars PROVE MeshInv'
  OBVIOUS
<1>1. CASE CreateKey \/ StoreRecord \/ StoreRecordFails
  BY <1>1, MeshAssumption DEF CreateKey, StoreRecord, StoreRecordFails, Mishap, MeshInv,
     MeshTypeOK, TriedInv, SealInv, ReportUnderWay, meshHist, kvVars
<1>2. CASE DeviceStep \/ AcknowledgeLost \/ GiveUpReport \/ RestartOrdered
  BY <1>2, DeviceInv
<1>3. ASSUME NEW x \in Conns, HandlerStep(x) PROVE MeshInv'
  BY <1>3, HandlerTypes, HandlerTried, HandlerSealed DEF MeshInv
<1>4. ASSUME NEW x \in AdminConns, Admin(x) PROVE MeshInv'
  BY <1>4, AdminInv
<1>5. CASE UNCHANGED meshVars
  BY <1>5 DEF meshVars, MeshInv, MeshTypeOK, TriedInv, SealInv, ReportUnderWay, meshHist, kvVars
<1>6. CASE Expire
  BY <1>6 DEF Expire, MeshInv, MeshTypeOK, TriedInv, SealInv, ReportUnderWay
<1> QED
  BY <1>1, <1>2, <1>3, <1>4, <1>5, <1>6
     DEF MeshNext, ReportStep, OrderStep, CallFails, HandlerStep, Conns

\* Type correctness, for any number of requests, orders and mishaps.
THEOREM MeshTypeCorrect == MeshSpec => []MeshTypeOK
<1>1. MeshInv => MeshTypeOK
  BY DEF MeshInv
<1> QED
  BY MeshInitInv, MeshNextInv, <1>1, PTL DEF MeshSpec

\* What a client's record calls completed was tried by its device, whatever is lost,
\* late or repeated on the way.
THEOREM CompletedWasTriedHolds == MeshSpec => []CompletedWasTried
<1>1. MeshInv => CompletedWasTried
  BY DEF MeshInv, TriedInv, CompletedWasTried
<1> QED
  BY MeshInitInv, MeshNextInv, <1>1, PTL DEF MeshSpec

\* A revocation stored while no report was under way is final, once no older record can
\* be read.
THEOREM RevocationStandsHolds == MeshSpec => []RevocationStands
<1>1. MeshInv => RevocationStands
  BY DEF MeshInv, SealInv, RevocationStands, ReportUnderWay
<1> QED
  BY MeshInitInv, MeshNextInv, <1>1, PTL DEF MeshSpec
-----------------------------------------------------------------------------
(***************************************************************************)
(* The alerts.  The state of the rules that counts is the copy of the tick  *)
(* that is evaluating them, the saved one if there is none.                 *)
(***************************************************************************)
Evaluates(w) == tick[w].at = "rules"

\* Nothing evaluated together, cut off or unsaved: what the notices, the quiet minutes and
\* the report of the day have to do with the state.
Undisturbed ==
    /\ \A v, w \in Workers : Busy(v) /\ Busy(w) => v = w
    /\ \A w \in Workers : Evaluates(w) =>
        /\ tick[w].firing = said
        /\ \A r \in Rules :
            /\ quiet[r] <= tick[w].now
            /\ tick[w].since[r] = 0 \/ quiet[r] <= tick[w].since[r]
    /\ (\A w \in Workers : ~Evaluates(w)) =>
        /\ firing = said
        /\ \A r \in Rules : since[r] = 0 \/ quiet[r] <= since[r]
    /\ hasty = {}
    /\ reports = IF reported THEN 1 ELSE 0
    /\ \A w \in Workers : tick[w].at = "inspect" => ~reported

TimeInv ==
    /\ \A r \in Rules : quiet[r] <= clock
    /\ \A w \in Workers : tick[w].now <= clock

AlertInv == AlertTypeOK /\ TimeInv /\ (spoilt \/ Undisturbed)

\* The initial states satisfy the invariant.
LEMMA AlertInitInv == AlertInit => AlertInv
<1> SUFFICES ASSUME AlertInit PROVE AlertInv
  OBVIOUS
<1> USE AlertAssumption DEF AlertInit
<1>1. Idle \in Ticks
  BY DEF Idle, Ticks, Minutes
<1>2. AlertTypeOK
  <2>1. 0 \in Minutes /\ [r \in Rules |-> 0] \in [Rules -> Minutes]
    BY DEF Minutes
  <2>2. tick \in [Workers -> Ticks]
    BY <1>1
  <2>3. ticker \in [Workers -> 0..MaxClock + 1]
    OBVIOUS
  <2>4. /\ clock \in 1..MaxClock /\ upsets \in 0..MaxUpsets /\ reports \in Nat
        /\ firing \subseteq Rules /\ said \subseteq Rules /\ hasty \subseteq Rules
    OBVIOUS
  <2>5. reported \in BOOLEAN /\ spoilt \in BOOLEAN
    OBVIOUS
  <2>6. since \in [Rules -> Minutes] /\ quiet \in [Rules -> Minutes]
    BY <2>1
  <2>7. older \subseteq States /\ oldDate \in BOOLEAN
    OBVIOUS
  <2> QED
    BY ONLY <2>2, <2>3, <2>4, <2>5, <2>6, <2>7 DEF AlertTypeOK
<1>3. TimeInv /\ Undisturbed
  BY DEF TimeInv, Undisturbed, Busy, Evaluates, Idle
<1> QED
  BY <1>2, <1>3 DEF AlertInv

\* A tick may be set to any of its states.
LEMMA TickTypes ==
    ASSUME AlertTypeOK, NEW w \in Workers
    PROVE  /\ tick[w] \in Ticks
           /\ Idle \in Ticks
           /\ \A t \in Ticks : [tick EXCEPT ![w] = t] \in [Workers -> Ticks]
  BY AlertAssumption DEF AlertTypeOK, Ticks, Idle, Minutes

\* A rule is settled in the tick's copy only.
LEMMA SettleTypes ==
    ASSUME AlertTypeOK, NEW w \in Workers, NEW r \in Rules, NEW start \in Minutes,
           NEW fires \in SUBSET Rules, Settle(w, r, start, fires)
    PROVE  /\ tick' \in [Workers -> Ticks]
           /\ \A v \in Workers \ {w} : tick'[v] = tick[v]
           /\ tick'[w].at = tick[w].at /\ tick'[w].now = tick[w].now
           /\ tick'[w].since = [tick[w].since EXCEPT ![r] = start]
           /\ tick'[w].firing = fires
<1> DEFINE t == [tick[w] EXCEPT !.todo = @ \ {r}, !.since = [@ EXCEPT ![r] = start],
                                !.firing = fires]
<1>1. tick[w] \in Ticks
  BY TickTypes
<1>2. t \in Ticks
  BY <1>1 DEF Ticks
<1>3. tick' = [tick EXCEPT ![w] = t]
  BY DEF Settle
<1>4. tick'[w] = t /\ tick \in [Workers -> Ticks]
  BY <1>3 DEF AlertTypeOK, Ticks
<1>5. /\ t.at = tick[w].at /\ t.now = tick[w].now
      /\ t.since = [tick[w].since EXCEPT ![r] = start]
      /\ t.firing = fires
  BY <1>1 DEF Ticks
<1> QED
  BY <1>2, <1>3, <1>4, <1>5

\* The evaluation of one rule preserves the invariant: a rule becomes quiet and loses its
\* start in the same step, and fires only when its start lies far enough back.
LEMMA RuleStepInv ==
    ASSUME AlertInv, NEW w \in Workers, NEW r \in Rules, RuleStep(w, r)
    PROVE  AlertInv'
<1> USE AlertAssumption DEF AlertInv
<1>0. /\ tick[w] \in Ticks /\ tick[w].now \in Minutes /\ tick[w].since \in [Rules -> Minutes]
      /\ tick[w].firing \subseteq Rules /\ tick[w].at = "rules" /\ Minutes \subseteq Nat
      /\ Started(w, r) \in Minutes /\ 0 \in Minutes
  <2>1. tick[w] \in Ticks
    BY TickTypes
  <2>2. tick[w].at = "rules"
    BY DEF RuleStep, SkipRule, SilencedRule, QuietRule, PendingRule, FiringRule, Considers
  <2>3. /\ tick[w].now \in Minutes /\ tick[w].since \in [Rules -> Minutes]
        /\ tick[w].firing \subseteq Rules
    BY <2>1 DEF Ticks
  <2>4. 0 \in Minutes /\ Minutes \subseteq Nat
    BY DEF Minutes
  <2> QED
    BY <2>1, <2>2, <2>3, <2>4 DEF Started
<1> DEFINE Kept == UNCHANGED <<clock, ticker, since, firing, reported, older, oldDate, upsets,
                               reports, spoilt>>
<1>1. Kept
  BY DEF RuleStep, SkipRule, SilencedRule, QuietRule, PendingRule, FiringRule, alertHist, alertKV
<1>2. ASSUME NEW start \in Minutes, NEW fires \in SUBSET Rules, Settle(w, r, start, fires),
             said' \subseteq Rules, quiet' \in [Rules -> Minutes],
             \A s \in Rules : quiet'[s] \in {quiet[s], tick[w].now},
             hasty' \subseteq Rules,
             ~spoilt => /\ hasty' = {}
                        /\ said' = fires
                        /\ start = 0 \/ quiet'[r] <= start
                        /\ \A s \in Rules \ {r} : quiet'[s] = quiet[s]
      PROVE  AlertInv'
  <2>0. /\ tick' \in [Workers -> Ticks]
        /\ \A v \in Workers \ {w} : tick'[v] = tick[v]
        /\ tick'[w].at = "rules" /\ tick'[w].now = tick[w].now
        /\ tick'[w].since = [tick[w].since EXCEPT ![r] = start]
        /\ tick'[w].firing = fires
    <3>1. /\ AlertTypeOK /\ Settle(w, r, start, fires) /\ tick[w].at = "rules"
          /\ w \in Workers /\ r \in Rules /\ start \in Minutes /\ fires \in SUBSET Rules
      BY <1>0, <1>2
    <3> QED
      BY ONLY <3>1, SettleTypes
  <2>1. AlertTypeOK'
    BY <1>1, <1>2, <2>0 DEF AlertTypeOK, Ticks, Minutes
  <2>2. TimeInv'
    BY <1>0, <1>1, <1>2, <2>0 DEF TimeInv
  <2>3. CASE ~spoilt
    <3>1. Undisturbed
      BY <2>3
    <3>2. \A v, u \in Workers : Busy(v)' /\ Busy(u)' => v = u
      <4>1. \A v \in Workers : tick'[v].at = tick[v].at
        BY <1>0, <2>0
      <4> QED
        BY <3>1, <4>1 DEF Undisturbed, Busy
    <3>3. \A v \in Workers : Evaluates(v)' => v = w
      BY <1>0, <1>2, <2>0, <3>1 DEF Undisturbed, Busy, Evaluates
    <3>4. tick'[w].firing = said'
      BY <1>0, <1>2, <2>0, <2>3, <3>1 DEF Undisturbed, Evaluates
    <3>5. ASSUME NEW s \in Rules
          PROVE  /\ quiet'[s] <= tick'[w].now
                 /\ tick'[w].since[s] = 0 \/ quiet'[s] <= tick'[w].since[s]
      <4>1. /\ quiet[s] <= tick[w].now
            /\ tick[w].since[s] = 0 \/ quiet[s] <= tick[w].since[s]
        BY <1>0, <3>1 DEF Undisturbed, Evaluates
      <4>2. quiet'[s] \in {quiet[s], tick[w].now} /\ tick[w].now \in Nat
        BY <1>0, <1>2
      <4>0. tick'[w].since = [tick[w].since EXCEPT ![r] = start] /\ tick[w].since \in [Rules -> Minutes]
        BY <1>0, <2>0
      <4>5. quiet'[s] <= tick'[w].now
        BY <2>0, <4>1, <4>2
      <4>3. CASE s = r
        BY <1>2, <2>3, <4>0, <4>3, <4>5
      <4>4. CASE s # r
        BY <1>2, <2>3, <4>0, <4>1, <4>4, <4>5
      <4> QED
        BY <4>3, <4>4
    <3>6. Evaluates(w)'
      BY <1>0, <1>2, <2>0 DEF Evaluates
    <3>7. \A v \in Workers : tick'[v].at = "inspect" => ~reported'
      BY <1>0, <1>1, <1>2, <2>0, <3>1 DEF Undisturbed
    <3>8. Undisturbed'
      <4>1. hasty' = {} /\ reports' = IF reported' THEN 1 ELSE 0
        BY <1>1, <1>2, <2>3, <3>1 DEF Undisturbed
      <4>2. ASSUME NEW v \in Workers, Evaluates(v)'
            PROVE  /\ tick'[v].firing = said'
                   /\ \A s \in Rules :
                        /\ quiet'[s] <= tick'[v].now
                        /\ tick'[v].since[s] = 0 \/ quiet'[s] <= tick'[v].since[s]
        BY <3>3, <3>4, <3>5, <4>2
      <4> QED
        <5>1. ~(\A v \in Workers : ~Evaluates(v)')
          BY <3>6
        <5> QED
          BY ONLY <3>2, <3>7, <4>1, <4>2, <5>1 DEF Undisturbed
    <3> QED
      BY <2>1, <2>2, <3>8
  <2> QED
    BY <1>1, <2>1, <2>2, <2>3
<1>3. spoilt \/ (Undisturbed /\ tick[w].firing = said)
  BY <1>0 DEF Undisturbed, Evaluates
<1>4. spoilt \/ tick[w].since[r] = 0 \/ quiet[r] <= tick[w].since[r]
  BY <1>0 DEF Undisturbed, Evaluates
<1>5. spoilt \/ (hasty = {} /\ quiet[r] <= tick[w].now)
  BY <1>0 DEF Undisturbed, Evaluates
<1>6. said \subseteq Rules /\ quiet \in [Rules -> Minutes] /\ hasty \subseteq Rules
  BY DEF AlertTypeOK
<1>7. CASE SkipRule(w, r)
  <2>1. /\ Settle(w, r, tick[w].since[r], tick[w].firing) /\ tick[w].since[r] \in Minutes
        /\ said' = said /\ quiet' = quiet /\ hasty' = hasty
    BY <1>0, <1>7 DEF SkipRule, alertHist
  <2> QED
    BY <1>0, <1>2, <1>3, <1>4, <1>5, <1>6, <2>1
<1>8. CASE SilencedRule(w, r)
  <2>1. /\ Settle(w, r, 0, tick[w].firing) /\ said' = said /\ hasty' = hasty
        /\ quiet' = [quiet EXCEPT ![r] = tick[w].now]
    BY <1>8 DEF SilencedRule
  <2> QED
    BY <1>0, <1>2, <1>3, <1>5, <1>6, <2>1
<1>9. CASE QuietRule(w, r)
  <2>1. /\ Settle(w, r, 0, tick[w].firing \ {r}) /\ hasty' = hasty
        /\ said' = IF r \in tick[w].firing THEN said \ {r} ELSE said
        /\ quiet' = [quiet EXCEPT ![r] = tick[w].now]
    BY <1>9 DEF QuietRule
  <2>2. spoilt \/ said' = tick[w].firing \ {r}
    BY <1>3, <2>1
  <2>3. /\ said' \subseteq Rules /\ quiet' \in [Rules -> Minutes]
        /\ \A s \in Rules : quiet'[s] \in {quiet[s], tick[w].now}
        /\ \A s \in Rules \ {r} : quiet'[s] = quiet[s]
        /\ tick[w].firing \ {r} \in SUBSET Rules
    BY ONLY <1>0, <1>6, <2>1, r \in Rules
  <2>4. ~spoilt => hasty' = {}
    BY <1>5, <2>1
  <2> QED
    BY <1>0, <1>2, <1>6, <2>1, <2>2, <2>3, <2>4
<1>10. CASE PendingRule(w, r)
  <2>1. spoilt \/ quiet[r] <= Started(w, r)
    BY <1>0, <1>4, <1>5, <1>6 DEF Started, Minutes
  <2>2. /\ Settle(w, r, Started(w, r), tick[w].firing)
        /\ said' = said /\ quiet' = quiet /\ hasty' = hasty
    BY <1>10 DEF PendingRule, alertHist
  <2> QED
    BY <1>0, <1>2, <1>3, <1>5, <1>6, <2>1, <2>2
<1>11. CASE FiringRule(w, r)
  <2>1. spoilt \/ quiet[r] <= Started(w, r)
    BY <1>0, <1>4, <1>5, <1>6 DEF Started, Minutes
  <2>2. tick[w].now - Started(w, r) >= ForMinutes
    BY <1>11 DEF FiringRule
  <2>3. spoilt \/ ~(tick[w].now < quiet[r] + ForMinutes)
    BY <1>0, <1>6, <2>1, <2>2 DEF Minutes
  <2>4. /\ Settle(w, r, Started(w, r), tick[w].firing \cup {r}) /\ quiet' = quiet
        /\ said' = IF r \in tick[w].firing THEN said ELSE said \cup {r}
        /\ hasty' = IF r \notin tick[w].firing /\ tick[w].now < quiet[r] + ForMinutes
                    THEN hasty \cup {r} ELSE hasty
    BY <1>11 DEF FiringRule
  <2>5. spoilt \/ (said' = tick[w].firing \cup {r} /\ hasty' = {})
    BY <1>3, <1>5, <2>3, <2>4
  <2>6. said' \subseteq Rules /\ hasty' \subseteq Rules /\ tick[w].firing \cup {r} \in SUBSET Rules
    BY <1>0, <1>6, <2>4
  <2> QED
    BY <1>0, <1>2, <1>5, <1>6, <2>1, <2>4, <2>5, <2>6
<1> QED
  BY <1>7, <1>8, <1>9, <1>10, <1>11 DEF RuleStep

\* A tick moves on to the state t, the others stay where they are.
LEMMA MoveTick ==
    ASSUME AlertTypeOK, NEW w \in Workers, NEW t \in Ticks, tick' = [tick EXCEPT ![w] = t]
    PROVE  /\ tick' \in [Workers -> Ticks]
           /\ \A v \in Workers \ {w} : tick'[v] = tick[v]
           /\ tick'[w] = t
<1>1. tick \in [Workers -> Ticks]
  BY DEF AlertTypeOK
<1> QED
  BY <1>1

\* Nothing of what Undisturbed and TimeInv speak about changes, but the clock.
LEMMA StandStill ==
    ASSUME AlertInv, UNCHANGED <<tick, since, firing, reported, alertHist>>,
           clock' \in Nat, clock <= clock'
    PROVE  TimeInv' /\ (spoilt \/ Undisturbed)'
<1> USE AlertAssumption DEF AlertInv
<1>1. clock \in Nat /\ quiet \in [Rules -> Nat] /\ \A v \in Workers : tick[v].now \in Nat
  BY DEF AlertTypeOK, Minutes, Ticks
<1>2. TimeInv'
  BY <1>1 DEF TimeInv, alertHist
<1>3. Undisturbed => Undisturbed'
  BY DEF Undisturbed, Busy, Evaluates, alertHist
<1> QED
  BY <1>2, <1>3 DEF alertHist

\* The passing of time, the start of a job, and its end: between two ticks nothing is lost,
\* during one the history is spoilt.
LEMMA MinuteInv == ASSUME AlertInv, Minute PROVE AlertInv'
<1> USE AlertAssumption
<1>1. clock \in Nat /\ clock' = clock + 1 /\ clock' \in 1..MaxClock
  BY DEF AlertInv, AlertTypeOK, Minute
<1>2. AlertTypeOK'
  BY <1>1 DEF AlertInv, AlertTypeOK, Minute, alertHist, alertKV
<1>3. UNCHANGED <<tick, since, firing, reported, alertHist>>
  BY DEF Minute, alertKV
<1>4. TimeInv' /\ (spoilt \/ Undisturbed)'
  BY <1>1, <1>3, StandStill
<1> QED
  BY <1>2, <1>4 DEF AlertInv

\* An older document in Redis is no part of what counts.
LEMMA ForgetInv == ASSUME AlertInv, Forget PROVE AlertInv'
<1> USE AlertAssumption
<1>1. clock \in Nat /\ clock' = clock
  BY DEF AlertInv, AlertTypeOK, Forget
<1>2. AlertTypeOK'
  BY DEF AlertInv, AlertTypeOK, Forget, alertHist
<1>3. UNCHANGED <<tick, since, firing, reported, alertHist>>
  BY DEF Forget
<1>4. TimeInv' /\ (spoilt \/ Undisturbed)'
  BY <1>1, <1>3, StandStill
<1> QED
  BY <1>2, <1>4 DEF AlertInv

\* A worker's job starts with no tick.
LEMMA StartJobInv == ASSUME AlertInv, NEW w \in Workers, StartJob(w) PROVE AlertInv'
<1> USE AlertAssumption
<1>1. clock \in 1..MaxClock /\ clock' = clock /\ ticker \in [Workers -> 0..MaxClock + 1]
  BY DEF AlertInv, AlertTypeOK, StartJob
<1>2. ticker' \in [Workers -> 0..MaxClock + 1]
  BY <1>1 DEF StartJob
<1>3. upsets' \in 0..MaxUpsets
  BY DEF AlertInv, AlertTypeOK, StartJob, Upset
<1>4. UNCHANGED <<tick, since, firing, reported, older, oldDate, alertHist>>
  BY DEF StartJob, alertKV
<1>5. AlertTypeOK'
  BY <1>1, <1>2, <1>3, <1>4 DEF AlertInv, AlertTypeOK, alertHist
<1>6. TimeInv' /\ (spoilt \/ Undisturbed)'
  BY <1>1, <1>4, StandStill
<1> QED
  BY <1>5, <1>6 DEF AlertInv

\* A tick gets to a state in which it evaluates nothing from one in which it evaluates
\* nothing, and does not get to inspect.
LEMMA Retreat ==
    ASSUME AlertInv, NEW w \in Workers, NEW t \in Ticks, tick' = [tick EXCEPT ![w] = t],
           tick[w].at # "rules", t.at = "idle", t.now = 0,
           UNCHANGED <<clock, since, firing, reported, said, quiet, hasty, reports>>
    PROVE  TimeInv' /\ (Undisturbed => Undisturbed')
<1> USE AlertAssumption
<1>1. /\ \A v \in Workers \ {w} : tick'[v] = tick[v]
      /\ tick'[w] = t
  BY MoveTick DEF AlertInv
<1>2. TimeInv'
  BY <1>1 DEF AlertInv, AlertTypeOK, TimeInv
<1>3. /\ \A v \in Workers : Busy(v)' => Busy(v)
      /\ \A v \in Workers : Evaluates(v)' => v # w
      /\ \A v \in Workers : Evaluates(v)' <=> Evaluates(v)
      /\ \A v \in Workers : tick'[v].at = "inspect" => tick[v].at = "inspect"
  BY <1>1 DEF Busy, Evaluates
<1>4. ASSUME Undisturbed PROVE Undisturbed'
  <2>1. \A v, u \in Workers : Busy(v)' /\ Busy(u)' => v = u
    BY <1>3, <1>4 DEF Undisturbed
  <2>2. ASSUME NEW v \in Workers, Evaluates(v)'
        PROVE  /\ tick'[v].firing = said'
               /\ \A r \in Rules :
                    /\ quiet'[r] <= tick'[v].now
                    /\ tick'[v].since[r] = 0 \/ quiet'[r] <= tick'[v].since[r]
    BY <1>1, <1>3, <1>4, <2>2 DEF Undisturbed
  <2>3. (\A v \in Workers : ~Evaluates(v))' =>
           firing' = said' /\ \A r \in Rules : since'[r] = 0 \/ quiet'[r] <= since'[r]
    BY <1>3, <1>4 DEF Undisturbed
  <2>4. /\ hasty' = {} /\ reports' = IF reported' THEN 1 ELSE 0
        /\ \A v \in Workers : tick'[v].at = "inspect" => ~reported'
    BY <1>3, <1>4 DEF Undisturbed
  <2> QED
    BY <2>1, <2>2, <2>3, <2>4 DEF Undisturbed
<1> QED
  BY <1>2, <1>4

\* A job that is killed in its tick counts as spoilt.
LEMMA KillJobInv == ASSUME AlertInv, NEW w \in Workers, KillJob(w) PROVE AlertInv'
<1> USE AlertAssumption
<1>1. Idle \in Ticks /\ Idle.at = "idle" /\ Idle.now = 0
  BY TickTypes DEF AlertInv, Idle
<1>2. tick' = [tick EXCEPT ![w] = Idle]
  BY DEF KillJob
<1>3. /\ tick' \in [Workers -> Ticks]
      /\ \A v \in Workers \ {w} : tick'[v] = tick[v]
      /\ tick'[w] = Idle
  BY <1>1, <1>2, MoveTick DEF AlertInv
<1>4. AlertTypeOK'
  <2>1. ticker' \in [Workers -> 0..MaxClock + 1] /\ upsets' \in 0..MaxUpsets
    BY DEF AlertInv, AlertTypeOK, KillJob, Upset
  <2>2. spoilt' \in BOOLEAN
    BY DEF KillJob
  <2> QED
    BY <1>3, <2>1, <2>2 DEF AlertInv, AlertTypeOK, KillJob, alertKV
<1>5. UNCHANGED <<clock, since, firing, reported, said, quiet, hasty, reports>>
  BY DEF KillJob, alertKV
<1>6. TimeInv'
  BY <1>1, <1>3, <1>5 DEF AlertInv, AlertTypeOK, TimeInv
<1>7. CASE ~spoilt'
  <2>1. tick[w].at # "rules" /\ Undisturbed
    BY <1>7 DEF AlertInv, KillJob, Busy
  <2> QED
    BY <1>1, <1>2, <1>4, <1>5, <2>1, Retreat DEF AlertInv
<1> QED
  BY <1>4, <1>6, <1>7 DEF AlertInv

\* A tick begins with the saved state, or the history is spoilt: unless another one is under
\* way, it is the only one.
LEMMA BeginTickInv ==
    ASSUME AlertInv, NEW w \in Workers, NEW s \in {Saved, Nothing} \cup older, BeginTick(w, s)
    PROVE  AlertInv'
<1> USE AlertAssumption
<1> DEFINE t == [at |-> "rules", now |-> clock, todo |-> Rules, since |-> s.since, firing |-> s.firing]
<1>1. /\ clock \in 1..MaxClock /\ clock \in Minutes
      /\ since \in [Rules -> Minutes] /\ firing \subseteq Rules /\ older \subseteq States
  BY DEF AlertInv, AlertTypeOK, Minutes
<1>0. s \in States
  <2>1. 0 \in Minutes
    BY DEF Minutes
  <2> QED
    BY <1>1, <2>1 DEF States, Saved, Nothing
<1>2. t \in Ticks
  BY <1>0, <1>1 DEF Ticks, States
<1>3. tick' = [tick EXCEPT ![w] = t]
  BY DEF BeginTick
<1>4. /\ tick' \in [Workers -> Ticks]
      /\ \A v \in Workers \ {w} : tick'[v] = tick[v]
  BY <1>2, <1>3, MoveTick DEF AlertInv
<1>5. tick'[w] = t
  BY <1>2, <1>3, MoveTick DEF AlertInv
<1>6. UNCHANGED <<clock, since, firing, reported, older, oldDate, said, quiet, hasty, reports>>
  BY DEF BeginTick, alertKV
<1>7. AlertTypeOK'
  <2>1. ticker' \in [Workers -> 0..MaxClock + 1]
    BY <1>1 DEF AlertInv, AlertTypeOK, BeginTick
  <2>2. spoilt' \in BOOLEAN
    BY DEF BeginTick
  <2>3. upsets' \in 0..MaxUpsets
    BY DEF AlertInv, AlertTypeOK, BeginTick, ReadsState, Upset
  <2> QED
    BY <1>4, <1>6, <2>1, <2>2, <2>3 DEF AlertInv, AlertTypeOK
<1>8. /\ t.at = "rules" /\ t.now = clock
      /\ s = Saved => t.since = since /\ t.firing = firing
  BY DEF Saved
<1> HIDE DEF t
<1>9. TimeInv'
  BY <1>1, <1>4, <1>5, <1>6, <1>8 DEF AlertInv, TimeInv
<1>10. CASE ~spoilt'
  <2>1. Undisturbed /\ s = Saved /\ \A v \in Workers : ~Busy(v)
    BY <1>10 DEF AlertInv, BeginTick
  <2>2. \A v \in Workers \ {w} : tick'[v].at = "idle"
    BY <1>4, <2>1 DEF Busy
  <2>3. \A v \in Workers : ~Evaluates(v)
    BY <2>1 DEF Busy, Evaluates
  <2>4. firing = said /\ \A r \in Rules : since[r] = 0 \/ quiet[r] <= since[r]
    BY <2>1, <2>3 DEF Undisturbed
  <2>5. /\ \A v, u \in Workers : Busy(v)' /\ Busy(u)' => v = u
        /\ \A v \in Workers : Evaluates(v)' <=> v = w
        /\ \A v \in Workers : tick'[v].at # "inspect"
    BY <1>5, <1>8, <2>2 DEF Busy, Evaluates
  <2>6. tick'[w].firing = said' /\ \A r \in Rules :
           quiet'[r] <= tick'[w].now /\ (tick'[w].since[r] = 0 \/ quiet'[r] <= tick'[w].since[r])
    BY <1>5, <1>6, <1>8, <2>1, <2>4 DEF AlertInv, TimeInv
  <2>7. hasty' = {} /\ reports' = IF reported' THEN 1 ELSE 0
    BY <1>6, <2>1 DEF Undisturbed
  <2>8. Undisturbed'
    BY <2>5, <2>6, <2>7 DEF Undisturbed
  <2> QED
    BY <1>7, <1>9, <2>8 DEF AlertInv
<1> QED
  BY <1>7, <1>9, <1>10 DEF AlertInv

\* The save makes the copy of the tick the state that counts.
LEMMA SaveStateInv ==
    ASSUME AlertInv, NEW w \in Workers, SaveState(w) \/ SaveStateFails(w) PROVE AlertInv'
<1> USE AlertAssumption
<1> DEFINE t == [Idle EXCEPT !.at = "daily"]
<1>1. t \in Ticks /\ t.at = "daily" /\ t.now = 0
  BY TickTypes DEF AlertInv, Idle, Ticks
<1>2. tick' = [tick EXCEPT ![w] = t] /\ tick[w].at = "rules"
  BY DEF SaveState, SaveStateFails
<1> HIDE DEF t
<1>3. /\ tick' \in [Workers -> Ticks] /\ tick[w] \in Ticks
      /\ \A v \in Workers \ {w} : tick'[v] = tick[v]
      /\ tick'[w] = t
  BY <1>1, <1>2, MoveTick, TickTypes DEF AlertInv
<1>4. UNCHANGED <<clock, ticker, reported, oldDate, said, quiet, hasty, reports>>
  BY DEF SaveState, SaveStateFails, alertHist
<1>8. /\ tick[w].since \in [Rules -> Minutes] /\ tick[w].firing \subseteq Rules
      /\ older' \subseteq States /\ upsets' \in 0..MaxUpsets
  BY <1>3 DEF AlertInv, AlertTypeOK, SaveState, SaveStateFails, Ticks, States, Saved, Upset
<1>5. TimeInv'
  BY <1>1, <1>3, <1>4 DEF AlertInv, AlertTypeOK, TimeInv
<1>6. CASE SaveState(w)
  <2>1. since' = tick[w].since /\ firing' = tick[w].firing /\ spoilt' = spoilt
    BY <1>6 DEF SaveState, alertHist
  <2>2. since' \in [Rules -> Minutes] /\ firing' \subseteq Rules
    BY <1>8, <2>1
  <2>3. AlertTypeOK'
    BY <1>3, <1>4, <1>8, <2>1, <2>2 DEF AlertInv, AlertTypeOK
  <2>4. ASSUME ~spoilt PROVE Undisturbed'
    <3>1. Undisturbed
      BY <2>4 DEF AlertInv
    <3>2. \A v \in Workers \ {w} : tick'[v].at = "idle"
      BY <1>2, <1>3, <3>1 DEF Undisturbed, Busy
    <3>3. /\ \A v, u \in Workers : Busy(v)' /\ Busy(u)' => v = u
          /\ \A v \in Workers : ~Evaluates(v)'
          /\ \A v \in Workers : tick'[v].at # "inspect"
      BY <1>1, <1>3, <3>2 DEF Busy, Evaluates
    <3>4. firing' = said' /\ \A r \in Rules : since'[r] = 0 \/ quiet'[r] <= since'[r]
      BY <1>2, <1>4, <2>1, <3>1 DEF Undisturbed, Evaluates
    <3>5. hasty' = {} /\ reports' = IF reported' THEN 1 ELSE 0
      BY <1>4, <3>1 DEF Undisturbed
    <3> QED
      BY <3>3, <3>4, <3>5 DEF Undisturbed
  <2> QED
    BY <1>5, <2>1, <2>3, <2>4 DEF AlertInv
<1>7. CASE SaveStateFails(w)
  <2>1. since' \in [Rules -> Minutes] /\ firing' \subseteq Rules /\ spoilt' = TRUE
    BY <1>7, <1>8 DEF AlertInv, AlertTypeOK, SaveStateFails
  <2>2. AlertTypeOK'
    BY <1>3, <1>4, <1>8, <2>1 DEF AlertInv, AlertTypeOK
  <2> QED
    BY <1>5, <2>1, <2>2 DEF AlertInv
<1> QED
  BY <1>6, <1>7

\* A report is made once its date was found missing, and nobody else is at it.
LEMMA ReportInv ==
    ASSUME AlertInv, NEW w \in Workers, NEW read \in BOOLEAN,
           \/ BeginReport(w, read) \/ NoReport(w)
           \/ SaveReport(w) \/ SaveDateFails(w) \/ InspectionFails(w)
    PROVE  AlertInv'
<1> USE AlertAssumption
<1>1. Idle \in Ticks /\ Idle.at = "idle" /\ Idle.now = 0
  BY TickTypes DEF AlertInv, Idle
<1>2. tick[w] \in Ticks
  BY TickTypes DEF AlertInv
<1>3. CASE BeginReport(w, read)
  <2> DEFINE t == [tick[w] EXCEPT !.at = "inspect"]
  <2>1. t \in Ticks /\ t.at = "inspect" /\ t.now = tick[w].now
    BY <1>2 DEF Ticks
  <2>2. tick' = [tick EXCEPT ![w] = t] /\ tick[w].at = "daily" /\ ~read
    BY <1>3 DEF BeginReport, ReportDue
  <2> HIDE DEF t
  <2>3. /\ tick' \in [Workers -> Ticks]
        /\ \A v \in Workers \ {w} : tick'[v] = tick[v]
        /\ tick'[w] = t
    BY <2>1, <2>2, MoveTick DEF AlertInv
  <2>4. UNCHANGED <<clock, ticker, since, firing, reported, older, oldDate, said, quiet, hasty,
                    reports>>
    BY <1>3 DEF BeginReport, alertKV
  <2>7. upsets' \in 0..MaxUpsets /\ spoilt' \in BOOLEAN
    <3>1. upsets' \in 0..MaxUpsets
      BY <1>3 DEF BeginReport, ReadsDate, Upset, AlertInv, AlertTypeOK
    <3>2. spoilt' = spoilt \/ spoilt' = TRUE
      BY <1>3 DEF BeginReport, ReadsDate
    <3> QED
      BY <3>1, <3>2 DEF AlertInv, AlertTypeOK
  <2>8. ~spoilt' => ~spoilt /\ read = reported
    BY <1>3 DEF BeginReport, ReadsDate
  <2>5. AlertTypeOK' /\ TimeInv'
    BY <2>1, <2>3, <2>4, <2>7 DEF AlertInv, AlertTypeOK, TimeInv
  <2>6. ASSUME ~spoilt' PROVE Undisturbed'
    <3>1. Undisturbed
      BY <2>6, <2>8 DEF AlertInv
    <3>2. \A v \in Workers \ {w} : tick'[v].at = "idle" /\ tick[v].at = "idle"
      BY <2>2, <2>3, <3>1 DEF Undisturbed, Busy
    <3>3. /\ \A v, u \in Workers : Busy(v)' /\ Busy(u)' => v = u
          /\ \A v \in Workers : ~Evaluates(v)' /\ ~Evaluates(v)
      BY <2>1, <2>2, <2>3, <3>2 DEF Busy, Evaluates
    <3>4. /\ firing' = said' /\ \A r \in Rules : since'[r] = 0 \/ quiet'[r] <= since'[r]
          /\ hasty' = {} /\ reports' = IF reported' THEN 1 ELSE 0
      BY <2>4, <3>1, <3>3 DEF Undisturbed
    <3>5. ~reported'
      BY <2>2, <2>4, <2>6, <2>8
    <3> QED
      BY <3>3, <3>4, <3>5 DEF Undisturbed
  <2> QED
    BY <2>4, <2>5, <2>6 DEF AlertInv
<1>4. CASE NoReport(w) \/ InspectionFails(w)
  <2>1. /\ tick' = [tick EXCEPT ![w] = Idle] /\ tick[w].at # "rules" /\ spoilt' = spoilt
        /\ UNCHANGED <<clock, ticker, since, firing, reported, older, oldDate, said, quiet, hasty,
                       reports>>
    BY <1>4 DEF NoReport, InspectionFails, alertHist, alertKV
  <2>2. upsets' \in 0..MaxUpsets
    BY <1>4 DEF AlertInv, AlertTypeOK, NoReport, InspectionFails, Upset
  <2>3. tick' \in [Workers -> Ticks]
    BY <1>1, <2>1, MoveTick DEF AlertInv
  <2>4. AlertTypeOK'
    BY <2>1, <2>2, <2>3 DEF AlertInv, AlertTypeOK
  <2>5. TimeInv' /\ (Undisturbed => Undisturbed')
    BY <1>1, <2>1, Retreat
  <2> QED
    BY <2>1, <2>4, <2>5 DEF AlertInv
<1>5. CASE SaveReport(w)
  <2>1. /\ tick' = [tick EXCEPT ![w] = Idle] /\ tick[w].at = "inspect"
        /\ UNCHANGED <<clock, ticker, since, firing, older, said, quiet, hasty, spoilt>>
        /\ reports' = reports + 1 /\ reported' = TRUE /\ oldDate' \in BOOLEAN
    BY <1>5 DEF SaveReport
  <2>5. upsets' \in 0..MaxUpsets
    BY <1>5 DEF AlertInv, AlertTypeOK, SaveReport, Upset
  <2>2. /\ tick' \in [Workers -> Ticks]
        /\ \A v \in Workers \ {w} : tick'[v] = tick[v]
        /\ tick'[w] = Idle
    BY <1>1, <2>1, MoveTick DEF AlertInv
  <2>3. AlertTypeOK' /\ TimeInv'
    BY <1>1, <2>1, <2>2, <2>5 DEF AlertInv, AlertTypeOK, TimeInv
  <2>4. ASSUME ~spoilt PROVE Undisturbed'
    <3>1. Undisturbed /\ reports = 0
      BY <2>1, <2>4 DEF AlertInv, Undisturbed
    <3>2. \A v \in Workers \ {w} : tick'[v].at = "idle" /\ tick[v].at = "idle"
      BY <2>1, <2>2, <3>1 DEF Undisturbed, Busy
    <3>3. /\ \A v, u \in Workers : Busy(v)' /\ Busy(u)' => v = u
          /\ \A v \in Workers : ~Evaluates(v)' /\ ~Evaluates(v)
          /\ \A v \in Workers : tick'[v].at # "inspect"
      BY <1>1, <2>1, <2>2, <3>2 DEF Busy, Evaluates
    <3>4. /\ firing' = said' /\ \A r \in Rules : since'[r] = 0 \/ quiet'[r] <= since'[r]
          /\ hasty' = {} /\ reports' = IF reported' THEN 1 ELSE 0
      BY <2>1, <3>1, <3>3 DEF Undisturbed
    <3> QED
      BY <3>3, <3>4 DEF Undisturbed
  <2> QED
    BY <2>1, <2>3, <2>4 DEF AlertInv
<1>6. CASE SaveDateFails(w)
  <2>1. /\ tick' = [tick EXCEPT ![w] = Idle] /\ tick[w].at # "rules" /\ spoilt' = TRUE
        /\ UNCHANGED <<clock, ticker, since, firing, older, said, quiet, hasty>>
        /\ reports' = reports + 1 /\ oldDate' \in BOOLEAN /\ reported' \in BOOLEAN
    BY <1>6 DEF AlertInv, AlertTypeOK, SaveDateFails
  <2>2. /\ tick' \in [Workers -> Ticks]
        /\ \A v \in Workers \ {w} : tick'[v] = tick[v]
        /\ tick'[w] = Idle
    BY <1>1, <2>1, MoveTick DEF AlertInv
  <2>3. upsets' \in 0..MaxUpsets
    BY <1>6 DEF AlertInv, AlertTypeOK, SaveDateFails, Upset
  <2>4. AlertTypeOK' /\ TimeInv'
    BY <1>1, <2>1, <2>2, <2>3 DEF AlertInv, AlertTypeOK, TimeInv
  <2> QED
    BY <2>1, <2>4 DEF AlertInv
<1> QED
  BY <1>3, <1>4, <1>5, <1>6

\* Every step of the workers and of the clock keeps the invariant.
LEMMA AlertNextInv == AlertInv /\ [AlertNext]_alertVars => AlertInv'
<1> SUFFICES ASSUME AlertInv, [AlertNext]_alertVars PROVE AlertInv'
  OBVIOUS
<1>1. CASE Minute \/ Forget
  BY <1>1, MinuteInv, ForgetInv
<1>2. ASSUME NEW w \in Workers, NEW r \in Rules, RuleStep(w, r) PROVE AlertInv'
  BY <1>2, RuleStepInv
<1>3. ASSUME NEW w \in Workers,
             \/ StartJob(w) \/ KillJob(w)
             \/ \E s \in {Saved, Nothing} \cup older : BeginTick(w, s)
             \/ SaveState(w) \/ SaveStateFails(w)
      PROVE  AlertInv'
  BY <1>3, StartJobInv, KillJobInv, BeginTickInv, SaveStateInv
<1>5. ASSUME NEW w \in Workers, NEW read \in BOOLEAN,
             \/ BeginReport(w, read) \/ NoReport(w)
             \/ SaveReport(w) \/ SaveDateFails(w) \/ InspectionFails(w)
      PROVE  AlertInv'
  BY <1>5, ReportInv
<1>4. CASE UNCHANGED alertVars
  <2>1. clock \in Nat /\ clock' = clock
    BY <1>4 DEF AlertInv, AlertTypeOK, alertVars
  <2>2. UNCHANGED <<tick, since, firing, reported, alertHist>>
    BY <1>4 DEF alertVars, alertKV
  <2>3. TimeInv' /\ (spoilt \/ Undisturbed)'
    BY <2>1, <2>2, StandStill
  <2>4. AlertTypeOK'
    BY <1>4 DEF AlertInv, AlertTypeOK, alertVars, alertHist, alertKV
  <2> QED
    BY <2>3, <2>4 DEF AlertInv
<1> QED
  BY <1>1, <1>2, <1>3, <1>4, <1>5 DEF AlertNext

\* What the notices and the report of the day need holds throughout.
THEOREM AlertInvHolds == AlertSpec => []AlertInv
  BY AlertInitInv, AlertNextInv, PTL DEF AlertSpec

\* The variables of the alerts have their types.
THEOREM AlertTypeCorrect == AlertSpec => []AlertTypeOK
<1>1. AlertInv => AlertTypeOK
  BY DEF AlertInv
<1> QED  BY <1>1, AlertInvHolds, PTL

\* What is saved between two ticks is what was last announced.
THEOREM FiringAsSaidHolds == AlertSpec => []FiringAsSaid
<1>1. AlertInv => FiringAsSaid
  BY DEF AlertInv, Undisturbed, Evaluates, FiringAsSaid
<1> QED  BY <1>1, AlertInvHolds, PTL

\* No rule is announced before its condition has held for as long as it must.
THEOREM FiringEarnedHolds == AlertSpec => []FiringEarned
<1>1. AlertInv => FiringEarned
  BY DEF AlertInv, Undisturbed, FiringEarned
<1> QED  BY <1>1, AlertInvHolds, PTL

\* One report a day.
THEOREM DailyOnceHolds == AlertSpec => []DailyOnce
<1>1. AlertInv => DailyOnce
  BY DEF AlertInv, Undisturbed, DailyOnce
<1> QED  BY <1>1, AlertInvHolds, PTL
-----------------------------------------------------------------------------
(***************************************************************************)
(* The parts together, as the runs of MCServer check them.                  *)
(***************************************************************************)
\* A step of the server is a step of each part, or leaves that part as it is.
LEMMA ServerStep ==
  [ServerNext]_serverVars => [Next]_vars /\ [MeshNext]_meshVars /\ [AlertNext]_alertVars
  BY DEF ServerNext, serverVars

\* So a behaviour of the server is one of each part.
LEMMA ServerParts == ServerSpec => Spec /\ MeshSpec /\ AlertSpec
<1>1. ServerInit => Init /\ MeshInit /\ AlertInit
  BY DEF ServerInit
<1> QED
  BY <1>1, ServerStep, PTL DEF ServerSpec, Spec, MeshSpec, AlertSpec

\* Every part of the server keeps its variables within their types.
THEOREM ServerTypeCorrect == ServerSpec => []ServerTypeOK
  BY ServerParts, TypeCorrect, MeshTypeCorrect, AlertTypeCorrect, PTL DEF ServerTypeOK

\* And what each of them promises holds in every behaviour of the server.
THEOREM ServerSafe ==
  ServerSpec =>
    [](CompletedWasTried /\ RevocationStands /\ FiringAsSaid /\ FiringEarned /\ DailyOnce)
  BY ServerParts, CompletedWasTriedHolds, RevocationStandsHolds, FiringAsSaidHolds,
     FiringEarnedHolds, DailyOnceHolds, PTL
=============================================================================
