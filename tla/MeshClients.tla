----------------------------- MODULE MeshClients -----------------------------
(***************************************************************************)
(* One managed mesh client (internal/mesh_clients.go) and the agent on its *)
(* device (internal/meshclient/client.go).  The server keeps two documents *)
(* of it in the platform KV, the record and the actions, and no handler    *)
(* locks them: a report, a revocation and an order to the device each read *)
(* both and write them back whole.  A Get or a Set is one step.  The KV    *)
(* has Redis in front of MySQL (PlatformKVHot): after a write that Redis   *)
(* missed, or that met a late fill, it may answer with an older document   *)
(* until that has expired.                                                 *)
(*                                                                         *)
(* The agent sends one report at a time and gives it up after 10 s; the    *)
(* handler of the server goes on.  Requests are served by "conns": those   *)
(* of the device and those of the administrators.                          *)
(***************************************************************************)
EXTENDS Naturals, FiniteSets

CONSTANTS
    DeviceConns, AdminConns,
    MaxOrders,          \* bound on the orders that are accepted
    Systems,            \* the systems a client is issued for
    NoConn,
    MaxMishaps          \* bound on timeouts, lost requests, failed calls, restarts

ASSUME MeshAssumption ==
    /\ DeviceConns \cap AdminConns = {}
    /\ MaxOrders \in Nat /\ NoConn \notin DeviceConns
    /\ Systems \subseteq {"windows", "macos", "linux"}
    /\ MaxMishaps \in Nat

VARIABLES
    issue,        \* the package handler: none, key (a join key exists), stored
    record,       \* the record's system and whether it is revoked
    pending,      \* the actions: the order to carry out
    completed,    \* and the last one that was acknowledged (LastAction)
    oldRecords,   \* what Redis may answer with instead of the record
    oldActions,   \* and of the actions
    issued,       \* the orders that got an id so far
    conn,
    device,       \* the agent: what it does, the order it knows, the conn it waits for
    mishaps

\* What has happened: ids whose order was confirmed to an administrator, orders the
\* device tried to carry out, orders taken out of "pending" without an acknowledgement.
VARIABLES told, tried, dropped
\* A revocation is stored, no report that had read the record before is under way, and
\* no older record can be read.
VARIABLE sealed

meshHist == <<told, tried, dropped, sealed>>
kvVars == <<record, pending, completed, oldRecords, oldActions>>
meshVars == <<issue, kvVars, issued, conn, device, mishaps, meshHist>>

Conns == DeviceConns \cup AdminConns
\* An order's id is a UUID: here its number.
Commands == 1..MaxOrders
NoCommand == 0
Orders == Commands \cup {NoCommand}

\* The two documents.
Records == [os : Systems, revoked : BOOLEAN]
Documents == [pending : Orders, completed : Orders]
Actions == [pending |-> pending, completed |-> completed]
NoActions == [pending |-> NoCommand, completed |-> NoCommand]

\* "actions": has read the record; "act", "rec": is about to write that document.
ConnStates == [does : {"nothing", "report", "revoke", "order"},
               at : {"load", "actions", "act", "rec"},
               id : Orders,            \* the order acknowledged
               revoked : BOOLEAN,      \* its copies
               pending : Orders, completed : Orders]

Free == [does |-> "nothing", at |-> "load", id |-> NoCommand,
         revoked |-> FALSE, pending |-> NoCommand, completed |-> NoCommand]

MeshTypeOK ==
    /\ issue \in {"none", "key", "stored"}
    /\ record \in Records
    /\ pending \in Orders /\ completed \in Orders
    /\ oldRecords \subseteq Records /\ oldActions \subseteq Documents
    /\ issued \in 0..MaxOrders
    /\ conn \in [Conns -> ConnStates]
    /\ device \in [at : {"off", "idle", "asking", "ordered", "done", "acking"},
                   order : Orders, via : DeviceConns \cup {NoConn}]
    /\ mishaps \in 0..MaxMishaps
    /\ told \subseteq Commands /\ tried \subseteq Commands /\ dropped \subseteq Commands
    /\ sealed \in BOOLEAN

MeshInit ==
    /\ issue = "none"
    /\ record \in [os : Systems, revoked : {FALSE}]
    /\ pending = NoCommand /\ completed = NoCommand
    /\ oldRecords = {} /\ oldActions = {} /\ issued = 0
    /\ conn = [x \in Conns |-> Free]
    /\ device = [at |-> "off", order |-> NoCommand, via |-> NoConn]
    /\ mishaps = 0
    /\ told = {} /\ tried = {} /\ dropped = {} /\ sealed = FALSE

Mishap == mishaps < MaxMishaps /\ mishaps' = mishaps + 1

Device(at, order, via) == device' = [at |-> at, order |-> order, via |-> via]

-----------------------------------------------------------------------------
(* The package: a one-use join key at Headscale, then the record.           *)

CreateKey ==
    /\ issue = "none"
    /\ issue' = "key"
    /\ UNCHANGED <<kvVars, issued, conn, device, mishaps, meshHist>>

StoreRecord ==
    /\ issue = "key"
    /\ issue' = "stored"
    /\ UNCHANGED <<kvVars, issued, conn, device, mishaps, meshHist>>

\* The deferred clean-up expires the key.
StoreRecordFails ==
    /\ issue = "key" /\ Mishap
    /\ issue' = "none"
    /\ UNCHANGED <<kvVars, issued, conn, device, meshHist>>

(* The device joins with the package; its service starts to report.  (The   *)
(* report of Join itself, whose answer is thrown away, is one given up.)    *)
Join ==
    /\ issue = "stored" /\ device.at = "off"
    /\ Device("idle", NoCommand, NoConn)
    /\ UNCHANGED <<issue, kvVars, issued, conn, mishaps, meshHist>>

-----------------------------------------------------------------------------
(* The agent.                                                               *)

\* The runtime's name for its system, which goes into the status.
Goos(os) == IF os = "macos" THEN "darwin" ELSE os

Call(x, does, id) == conn' = [conn EXCEPT ![x] = [Free EXCEPT !.does = does, !.id = id]]

Ask(x) ==
    /\ device.at = "idle" /\ conn[x] = Free
    /\ Call(x, "report", NoCommand)
    /\ Device("asking", NoCommand, x)
    /\ UNCHANGED <<issue, kvVars, issued, mishaps, meshHist>>

\* Whether tailscale obeys or fails, the order counts as carried out.
Execute ==
    /\ device.at = "ordered"
    /\ Device("done", device.order, NoConn)
    /\ tried' = tried \cup {device.order}
    /\ UNCHANGED <<issue, kvVars, issued, conn, mishaps, told, dropped, sealed>>

Acknowledge(x) ==
    /\ device.at = "done" /\ conn[x] = Free
    /\ Call(x, "report", device.order)
    /\ Device("acking", NoCommand, x)
    /\ UNCHANGED <<issue, kvVars, issued, mishaps, meshHist>>

\* The acknowledgement is not sent again.
AcknowledgeLost ==
    /\ device.at = "done" /\ Mishap
    /\ Device("idle", NoCommand, NoConn)
    /\ UNCHANGED <<issue, kvVars, issued, conn, meshHist>>

\* The client's 10 s are over, or the service restarts.
GiveUpReport ==
    /\ device.at \in {"asking", "acking"} /\ Mishap
    /\ Device("idle", NoCommand, NoConn)
    /\ UNCHANGED <<issue, kvVars, issued, conn, meshHist>>

\* It may be killed before or after tailscale was called.
RestartOrdered ==
    /\ device.at = "ordered" /\ Mishap
    /\ Device("idle", NoCommand, NoConn)
    /\ \/ tried' = tried \cup {device.order}
       \/ UNCHANGED tried
    /\ UNCHANGED <<issue, kvVars, issued, conn, told, dropped, sealed>>

-----------------------------------------------------------------------------
(* The handlers.                                                            *)

Proceed(x, at) == conn' = [conn EXCEPT ![x].at = at]

\* Mutant: the response hands the order over and clears it, no acknowledgement needed.
AnswerAndForget(x, order) ==
    /\ conn' = [conn EXCEPT ![x] = Free]
    /\ IF device.via # x THEN UNCHANGED device
       ELSE IF order # NoCommand /\ device.at = "asking" THEN Device("ordered", order, NoConn)
       ELSE Device("idle", NoCommand, NoConn)
    /\ pending' = IF order = NoCommand THEN pending ELSE NoCommand

\* Mutant: the agent does not look whether the answer carries an order.
AnswerUnchecked(x, order) ==
    /\ conn' = [conn EXCEPT ![x] = Free]
    /\ IF device.via # x THEN UNCHANGED device
       ELSE IF device.at = "asking" THEN Device("ordered", order, NoConn)
       ELSE Device("idle", NoCommand, NoConn)
    /\ UNCHANGED pending

\* The handler ends; the device hears of it if it still waits.
Answer(x, order) ==
    /\ conn' = [conn EXCEPT ![x] = Free]
    /\ IF device.via # x THEN UNCHANGED device
       ELSE IF order # NoCommand /\ device.at = "asking" THEN Device("ordered", order, NoConn)
       ELSE Device("idle", NoCommand, NoConn)
    /\ UNCHANGED pending

\* The handler ends with an error.
Fail(x) ==
    /\ conn' = [conn EXCEPT ![x] = Free]
    /\ IF device.via # x THEN UNCHANGED device ELSE Device("idle", NoCommand, NoConn)

(* Redis: a Set that reaches it replaces what it had; one that it misses or *)
(* that meets a late fill leaves the older document to be served.           *)

RecordsMirrored ==
    \/ oldRecords' = {} /\ UNCHANGED mishaps
    \/ oldRecords' = oldRecords \cup {record} /\ Mishap

ActionsMirrored ==
    \/ oldActions' = {} /\ UNCHANGED mishaps
    \/ oldActions' = oldActions \cup {Actions} /\ Mishap

\* Some report has read the record of a client that was not revoked.
ReportUnderWay == \E y \in DeviceConns : conn[y].at # "load" /\ ~conn[y].revoked

\* The older documents have expired.
Expire ==
    /\ oldRecords \cup oldActions # {}
    /\ oldRecords' = {} /\ oldActions' = {}
    /\ sealed' = (sealed \/ (record.revoked /\ ~ReportUnderWay))
    /\ UNCHANGED <<issue, record, pending, completed, issued, conn, device, mishaps,
                   told, tried, dropped>>

LoadRecord(x) ==
    /\ conn[x].does # "nothing" /\ conn[x].at = "load" /\ issue = "stored"
    /\ \E r \in {record} \cup oldRecords :
          conn' = [conn EXCEPT ![x].at = "actions", ![x].revoked = r.revoked]
    /\ UNCHANGED <<issue, kvVars, issued, device, mishaps, meshHist>>

\* What the Get of the actions gives; its failure is taken for a client without any.
ReadsActions(a) ==
    \/ a \in {Actions} \cup oldActions /\ UNCHANGED mishaps
    \/ a = NoActions /\ Mishap

\* Mutant: the credential of a revoked client still passes.
AcceptedAnyway(x) == Goos(record.os) = record.os

\* Its credential, and the system its status names.
Accepted(x) == ~conn[x].revoked /\ Goos(record.os) = record.os

Reading(x, does) == conn[x].does = does /\ conn[x].at = "actions"

RefuseReport(x) ==
    /\ Reading(x, "report") /\ ~Accepted(x)
    /\ Answer(x, NoCommand)
    /\ UNCHANGED <<issue, record, completed, oldRecords, oldActions, issued, mishaps, meshHist>>

\* Mutant: any acknowledgement completes whatever is pending.
CompletesAny(x, a) == a.pending # NoCommand /\ conn[x].id # NoCommand

Completes(x, a) == a.pending # NoCommand /\ conn[x].id = a.pending

TakeReport(x, a) ==
    /\ Reading(x, "report") /\ Accepted(x) /\ ReadsActions(a)
    /\ conn' = [conn EXCEPT
                  ![x].at = IF Completes(x, a) THEN "act" ELSE "rec",
                  ![x].pending = IF Completes(x, a) THEN NoCommand ELSE a.pending,
                  ![x].completed = IF Completes(x, a) THEN a.pending ELSE a.completed]
    /\ UNCHANGED <<issue, kvVars, issued, device, meshHist>>

\* A revocation keeps the completed order and drops the pending one.
ReadToRevoke(x, a) ==
    /\ Reading(x, "revoke") /\ ReadsActions(a)
    /\ conn' = [conn EXCEPT ![x].at = "rec", ![x].completed = a.completed]
    /\ UNCHANGED <<issue, kvVars, issued, device, meshHist>>

RefuseOrder(x, a) ==
    /\ Reading(x, "order") /\ ReadsActions(a)
    /\ conn[x].revoked \/ a.pending # NoCommand
    /\ Answer(x, NoCommand)
    /\ UNCHANGED <<issue, record, completed, oldRecords, oldActions, issued, meshHist>>

TakeOrder(x, a) ==
    /\ Reading(x, "order") /\ ReadsActions(a)
    /\ ~conn[x].revoked /\ a.pending = NoCommand /\ issued < MaxOrders
    /\ issued' = issued + 1
    /\ conn' = [conn EXCEPT ![x].at = "act", ![x].pending = issued + 1,
                            ![x].completed = a.completed]
    /\ UNCHANGED <<issue, kvVars, device, meshHist>>

\* The write of the actions, and the orders that it takes away unacknowledged.
StoreActions(x) ==
    /\ pending' = conn[x].pending /\ completed' = conn[x].completed
    /\ dropped' = dropped \cup ({pending} \ {NoCommand, conn[x].pending, conn[x].id})

WriteActions(x) ==
    /\ conn[x].at = "act"
    /\ StoreActions(x) /\ ActionsMirrored
    /\ told' = IF conn[x].does = "order" THEN told \cup {conn[x].pending} ELSE told
    /\ IF conn[x].does = "report" THEN Proceed(x, "rec") ELSE conn' = [conn EXCEPT ![x] = Free]
    /\ UNCHANGED <<issue, record, oldRecords, issued, device, tried, sealed>>

\* A revocation does not look at the result of this write.  A write that fails may
\* have been done; Redis is not told then.
WriteActionsFails(x) ==
    /\ conn[x].at = "act" /\ Mishap
    /\ Fail(x)
    /\ \/ UNCHANGED <<pending, completed, oldActions, dropped>>
       \/ StoreActions(x) /\ oldActions' = oldActions \cup {Actions}
    /\ UNCHANGED <<issue, record, oldRecords, issued, told, tried, sealed>>

\* It stands from then on if no report is under way and no older record is served.
WriteRevocation(x) ==
    /\ conn[x].does = "revoke" /\ conn[x].at = "rec"
    /\ record' = [record EXCEPT !.revoked = TRUE] /\ RecordsMirrored
    /\ sealed' = (sealed \/ (~ReportUnderWay /\ \A r \in oldRecords' : r.revoked))
    /\ Proceed(x, "act")
    /\ UNCHANGED <<issue, pending, completed, oldActions, issued, device, told, tried, dropped>>

\* The whole record goes back, with the RevokedAt it was read with.
WriteReport(x) ==
    /\ conn[x].does = "report" /\ conn[x].at = "rec"
    /\ record' = [record EXCEPT !.revoked = conn[x].revoked] /\ RecordsMirrored
    /\ Answer(x, conn[x].pending)
    /\ UNCHANGED <<issue, completed, oldActions, issued, meshHist>>

WriteRecordFails(x) ==
    /\ conn[x].at = "rec" /\ Mishap
    /\ Fail(x)
    /\ \/ UNCHANGED <<record, oldRecords>>
       \/ /\ record' = [record EXCEPT !.revoked = conn[x].revoked \/ conn[x].does = "revoke"]
          /\ oldRecords' = oldRecords \cup {record}
    /\ UNCHANGED <<issue, pending, completed, oldActions, issued, meshHist>>

\* The Get of the record fails, and there is no such client.
LoadRecordFails(x) ==
    /\ conn[x].does # "nothing" /\ conn[x].at = "load" /\ Mishap
    /\ Fail(x)
    /\ UNCHANGED <<issue, kvVars, issued, meshHist>>

(* The administrators.                                                      *)

CallRevoke(x) ==
    /\ issue = "stored" /\ conn[x] = Free
    /\ Call(x, "revoke", NoCommand)
    /\ UNCHANGED <<issue, kvVars, issued, device, mishaps, meshHist>>

CallOrder(x) ==
    /\ issue = "stored" /\ conn[x] = Free
    /\ Call(x, "order", NoCommand)
    /\ UNCHANGED <<issue, kvVars, issued, device, mishaps, meshHist>>

-----------------------------------------------------------------------------
ReportStep(x) ==
    \/ LoadRecord(x) \/ RefuseReport(x)
    \/ \E a \in Documents : TakeReport(x, a)
    \/ WriteActions(x) \/ WriteReport(x)

OrderStep(x) ==
    \/ LoadRecord(x)
    \/ \E a \in Documents : ReadToRevoke(x, a) \/ RefuseOrder(x, a) \/ TakeOrder(x, a)
    \/ WriteActions(x) \/ WriteRevocation(x)

CallFails(x) == LoadRecordFails(x) \/ WriteActionsFails(x) \/ WriteRecordFails(x)

DeviceStep == Join \/ Execute \/ \E x \in DeviceConns : Ask(x) \/ Acknowledge(x)

Admin(x) == CallRevoke(x) \/ CallOrder(x)

MeshNext ==
    \/ CreateKey \/ StoreRecord \/ StoreRecordFails \/ Expire
    \/ DeviceStep \/ AcknowledgeLost \/ GiveUpReport \/ RestartOrdered
    \/ \E x \in DeviceConns : ReportStep(x) \/ CallFails(x)
    \/ \E x \in AdminConns : Admin(x) \/ OrderStep(x) \/ CallFails(x)

MeshSpec == MeshInit /\ [][MeshNext]_meshVars

\* The agent's loop and the server's goroutines go on, and Redis forgets.
MeshFairness ==
    /\ WF_meshVars(Expire)
    /\ WF_meshVars(DeviceStep)
    /\ \A x \in DeviceConns : WF_meshVars(ReportStep(x))

FairMeshSpec == MeshSpec /\ MeshFairness

-----------------------------------------------------------------------------
\* An order that was confirmed to an administrator is carried out in the end, however
\* many reports and acknowledgements are lost on the way, unless the client is
\* revoked or another handler wrote its older copy of the actions over the order.
CommandArrives ==
    \A c \in Commands :
        c \in told ~> c \in tried \cup dropped \/ record.revoked

\* An order is recorded as completed only if the device has tried to carry it out,
\* however late its acknowledgements and those of older orders arrive.
CompletedWasTried == completed # NoCommand => completed \in tried

\* The claim of docs/mesh-native-client.md:11, as far as the code keeps it: a revocation
\* stored while no report is under way and no older record is served, or after which
\* the older ones expire, stays, and no later report is accepted.
RevocationStands ==
    sealed =>
        /\ record.revoked
        /\ \A x \in DeviceConns : conn[x].at \notin {"act", "rec"}
=============================================================================
