# A TLA+ model of labplane

labplane is a dashboard for a home or small-office platform: one Go process per
pod (`main.go`, `internal/`), several pods in a deployment, MySQL or local files
as storage, Redis as an optional cache, a long list of managed systems
(Kubernetes, vCenter, Harbor, the Baota panel, Headscale, DNS, cloud vendors), and
a React console in the browser (`react/src/`). Most handlers forward a request to a
system that owns the state, and most pages show what a handler answered. What
labplane itself has to get right are the protocols between its own threads, pods
and stores, and between the pages, requests and sockets of a browser tab; those are
what this directory models, checks with TLC and proves with TLAPS.

- [Inventory](#inventory): the parts of the system and what makes them correct
- [Modules](#modules): how each model corresponds to the code
- [Runs](#runs): what each TLC run checks, with which bounds
- [Proofs](#proofs): what holds for every instance, and why
- [Findings](#findings): where the code and its comments disagree
- [Limits](#limits): what is only model-checked
- [Not modelled](#not-modelled): what is left out, and why
- [Plan](#plan): what comes next

`PROJECT.json` lists components, runs, mutants, the source lines of every
definition, the hazards and the theorems.

## Inventory

### How the parts interact

`main.go` builds one `ServerApp` per process. It loads the settings
(`server_app.go`, `Reload`), opens the clients they name, starts the background
jobs (`background_leader.go`) and serves HTTP (`web.go`). Handlers read the
current settings and clients from the `ServerApp` under a read lock, and keep
their own state in three kinds of places:

- package-level maps, channels, mutexes and flags of one process (running
  captures, the audit queue, the sync mutex, the Harbor flag, login failures);
- the *platform KV* (`PlatformKV`): string keys with JSON documents in MySQL or in a
  file, optionally behind Redis. Almost every feature keeps its documents there
  and changes them by reading, editing and writing back, without a lock;
- the runtime settings: one document, in MySQL and in a file of each pod.

Pods share MySQL, Redis, the Kubernetes Lease and the managed systems. They learn
of each other's settings by polling a revision number. One of them, the holder of
the Lease, runs the background jobs.

A browser tab keeps what it believes of its user (`auth/auth-context.tsx`), a query
cache that every page shares (`App.tsx`), a gate that lets six requests through at a
time (`lib/api.ts`), and per page the refs, timers and sockets of its effects. Its
requests are checked anew by the server each time (`auth.go`), may be answered from a
response cache in Redis (`api_response_cache.go`) or from the platform KV's copy
there, and come back in any order.

### Components with a protocol

| Component | State | Operations | What is hard | What makes it correct |
|---|---|---|---|---|
| VM packet captures (`vm_capture_engine.go`, `vm_capture_handlers.go`) | sessions and reservations under one mutex; per session a stop reason, a status, a timer, a `sync.Once` and a `done` channel; `.pcap` and `.json` files | start, stop, delete, duration timer, pump (reads tcpdump over SSH), finalize, cleanup | the slow part of start is outside the mutex; five parties can end a session; waits time out and finalize in the waiter's thread | never more than three captures, one per VM; the status hand-over to the sidecar has no gap; a deleted capture stays deleted; the recorded reason is the true one; every slot comes back |
| Background-job election (`background_leader.go`, `main.go`, `web.go`) | the Lease; the context of the leadership; the process | campaign, renew, give up, exit, SIGTERM and release, restart | half of the jobs ignore their context; lost API servers; drains | two elected pods that serve never run the jobs together; the jobs always come back |
| Ingress to Baota sync (`baota_sync_run.go`, `watcher.go`, `syncer.go`, `baota_delete.go`) | the Ingresses, the panel's sites and proxies, the report in the KV, a try-lock per process, pending deletions | three triggers, list, add site, add proxy, record, delete with background retries | runs in two pods; answers lost; deletions between list and use; dropped triggers; crashes | the report is true; a deleted site stays away; every lasting Ingress is published; the report leaves "running" |
| Platform KV with Redis in front (`platform_kv_redis_hot.go`, `mysql_platform.go`, `redis_reconnect.go`) | per key: MySQL's value, Redis' value and TTL | Get with fill, Set with write-through, expiry, reconnect | no lock between pods; ignored failures; late fills; pods without the wrapper | stale values are bounded in time and have a known cause |
| Session entry (`session_nonce.go`, `auth.go`) | one KV document per user: a nonce per client IP | login (read, merge, trim, write), check, logout | read-modify-write over a cache; the trim is random | a session is only lost to a logout or for a known reason |
| Runtime settings (`settings_runtime_handlers.go`, `runtime_cluster_sync.go`, `server_app.go`, `mysql_platform.go`) | MySQL's document and revision; per pod a file, the settings in memory, the last revision seen | save, reload, poll, boot | save and poll reload at the same time; every write may fail separately; crashes between them | a pod that thinks it is up to date is; saves do not undo each other; pods catch up |
| Managed mesh clients (`mesh_clients.go`, `meshclient/client.go`) | per client a record and an action document in the KV; the agent on the device | issue, report, order, acknowledgement, revocation | a report writes the whole record back; two administrators at once; reports given up that the server still works on; an acknowledgement that is sent once | a confirmed order arrives, or it is known why not; only what was tried counts as completed; a revocation stands |
| Alert worker and daily report (`ops_center_alert_worker.go`) | pending and firing state per rule, and the date of the last report, in the KV | tick: each rule in turn, save, report | notices go out first, the state is saved later and the result ignored; a failed query looks like a recovery; two processes may run the job | notices alternate; no rule fires early; one report a day |
| The console's API gate (`lib/api.ts`) | a counter, a queue of waiters, the signal of each request | call, abort, time out, settle, wake the next | the counter is written by microtasks: a woken request counts itself later than it is woken | the counter is the number of holders; nobody waits at a gate with room; the limit is kept, or it is known who passed it |
| Signing in and out (`auth-context.tsx`, `RequireAuth.tsx`, `Login.tsx`, `auth.go`, `admin_users_handlers.go`) | what the tab believes, the query cache, the cookie, the stored nonce, disabled users, the builds that serve | status, page requests and their 401, both steps of a login, both logouts, an administrator, other tabs and machines, a rollout | two of the server's checks may disagree, and the browser acts on both; the query cache outlives a navigation | whoever is sent to log in arrives somewhere; one user's data are not shown to the next |
| Terminals (`usePodExecTerminal.ts`, `CloudVmSshTerminalSheet.tsx`) | an effect's run, its socket, refs for cancelling and disposing | connect, wait for a place in the page, messages, close, run again, unmount | callbacks of a session that has been replaced; one ref for whatever is under way | a view shows its own session; a shell is held by something that can close it |
| Capture panel (`VmCapturePanel.tsx`) | two queries that poll, a cursor and lines in refs, the last running name | poll, preview, announce an end, start, leave and come back | the preview is read in pieces while captures end and start; the list is read in two halves | the preview is whole; an end is announced as what it was |
| Document editor (`EditorContainer.tsx`, `DocExcalidrawPane.tsx`, `docs_handlers.go`, `docs_cache.go`) | one body for whatever document is open, a debounced drawing, a query per document, Redis, MySQL | open, type, draw, save, read through the cache | late answers and timers of the document before; a pane that mounts before the body is there; a fill that is late | no document is overwritten with another one's body; no save takes back another |
| Pages over the query cache (`App.tsx`, `pages/`, `hooks/`, `api_response_cache.go`) | per query its data, whether they are invalid and a request; the response cache | open, leave, fetch, cancel, join, mutate, invalidate | mutations name by hand what they refresh; a refresh may join an older request | a page with nothing on its way shows what the tab has changed, or it is known why not |

### Components that are not modelled yet, with a protocol

| Component | State and operations | What is hard |
|---|---|---|
| Capture files (`vm_capture_engine.go:612-863`, `vm_capture_ai.go`) | quota and retention cleanup, sidecar, AI report of one capture | cleanup lists first and asks for running captures later; orphans after a crash |
| Audit queue (`audit_queue.go`) | a channel of 1024, one writer | drops when full; the writer ends at SIGTERM while requests are still served |
| Harbor image index (`harbor_index_refresh.go`) | a flag per process, progress and index in Redis | two triggers; crash during a crawl |
| Mesh keys and policy (`mesh_handlers.go`, `mesh_policy.go`) | KV documents changed by several handlers, a policy at Headscale | unlocked read-modify-write; optimistic version check |
| vCenter events and cache (`vcenter_event_worker.go`, `vcenter_cache.go`) | a bounded list of events; Redis copies that are deleted after a change | fills after deletions |
| Object revisions (`k8s_object_revision_store.go`) | an append-only file per object, trimmed to 50 | crash while trimming |

Everything else is listed under [Not modelled](#not-modelled); `PROJECT.json` has a row
for each part.

## Modules

The server side comes first, then the browser; `MC*` modules hold instances for TLC
and `*Proofs` modules the theorems of the modules they extend.

### VmCapture, CaptureSlots

`VmCapture` follows one `vmCaptureManager`. A *capture* is an identifier that is
started at most once, with its VM fixed by `VmOf`. `sessions` and `starting` are
the manager's two maps; `phase` is how far `start` has come with the capture (its
file opened, registered, timer armed, pump launched, or failed or rejected; the
reservation that precedes the file is the VM's membership of `starting`); `ssh`,
`timer`, `stopOnce`, `reason`, `status` are the session's fields; `fin` says who entered
`finalize` and how far it has come; `pump` is the pump goroutine; `call` is what
each possible stopper is doing (the stop and delete handlers, the timer, and the
pump when the file is too big or starts with a bad header);
`metaFile`, `meta` and `pcap` are the files.

Each critical section of the code is one action: `Reserve`, `OpenFile`, `Register`
in `start`; `SetReason` and `CloseSsh` in `requestStop`; `Enter`, `Stamp`,
`WriteSidecar`, `CloseDone`, `Unregister` in `finalize`. A timed wait
(`WaitTimesOut`) may end at any moment while `done` is open: the model has no
clocks, so it covers every duration of the 5-second waits. A stopper that times
out enters `finalize` itself, as `stop` does.

`CaptureSlots` is what a client may rely on: a slot per VM that is idle, starting
or running, a global limit, and the promise that slots come back. `VmCapture`
instantiates it with a refinement mapping (`slotOf`), and `ImplementsSlots` is
checked as a temporal property: every step of every thread is a step of the table
or leaves it alone, and the table's fairness follows from the code's.

### LeaderJobs

Pods, one Lease, jobs of two kinds: those that take the context of the leadership and
end with it, and those ("legacy") that run until the process exits. Time is counted in
retry periods (5 s), so the code's durations are 1, 4 and 6. `age` is the time since
the Lease was last renewed and `Tick` may not pass over a deadline at which a pod has
to act: pods are assumed to run, though not to reach the API server. client-go's
elector is outside the repository; it is modelled from the configuration the code
gives it. A pod without a Kubernetes client when it boots, because the setup has not
been run or because the client could not be made (`server_app.go:158-162`), starts all
jobs unelected and never campaigns.

### BaotaSync

A domain stands for one rule of one managed Ingress. `run` is
`RunBaotaIngressSync` of each pod with its list, current domain, attempts and
result; `Enter` is the `TryLock`; `report` is the KV document. Each POST to the
panel is one action with its outcomes: done, refused, executed with the answer
lost, or not retried because the request was cancelled. `del` is the deletion of
an Ingress together with its site and its background retries. `pending` is the
watcher's channel and debounce timer together. Two history variables make the
properties precise: `clean` (deleted while no run had the domain on its list) and
`disturbed` (deleted since a run turned to the domain).

### PlatformKVHot

One key. A thread is one request in some pod; it runs `Get` (look up, read the
store, fill the cache) or `Set` (write the store, write or delete the cache) in the
steps that other threads can come between. Threads in `Bypass` belong to a pod whose
Redis was unreachable when it last reloaded: `redis_reconnect.go` gives it a client
again but not the wrapper. Time is in ticks; `age` is the time since a request's
context was created, which bounds when it may still dial Redis. It bounds no more:
`RedisLight` sets no deadline on the connection, so what has been dialled (`filling`,
`mirroring`) may arrive at any later time. A write of the store that fails may have been
done, and Redis is then not told. `quiet` (ticks since the store was written or an old
value was on an open connection) and `racy` (a write met another request, a failure or a
bypass) are history.

### SessionNonces

The composition of the session code with `PlatformKVHot`: it extends that module,
and each action of a login or logout is the session's part joined with the store's
action it calls (`BeginGet`, `ReadInner`, `BeginSet`, `WriteInner`, ...). A value
of the key is the set of client IPs that have a session; the nonce is left out,
since a new login of the same IP replaces it. `excused` collects the sessions that
an overlap, a failure, a stale cache or the trim may have cost; a session that is
saved undisturbed leaves it. `MCStore` runs the two modules over the same variables:
a behaviour is either plain requests on a key or the logins of a user (`focus`).

### RuntimeSync

Pods with two tasks each: `sync` (the boot load, then the polling loop) and `put` (one
save). A reload is four steps (read the file, read MySQL, write the file, swap the
settings in), a save is file, MySQL, revision, reload; every step may fail as the code
lets it, and a pod may restart at any point. A save begins with the form: the settings
page fetches all settings from one pod (`FetchForm`) and later sends them all to the
same or another one (`BeginPut`), which takes only the masked `Secrets` from its own
file; the patch of the Prometheus address (`BeginPatch`) works on the pod's file.
`pool` is the set of pods that have MySQL open: without it the loop skips its ticks,
so that a pod which booted while MySQL was down polls only after a save on it has
opened MySQL, and a patch stays local. Settings map fields to the number of the save
that set them, so that one save undoing another is visible. `blind` and `abreast` are
history: which pods may not know that they are out of date (an adopted revision,
overlapping loads, a failed load, save or bump, no pool), and which saves have a form
of a pod that was up to date, are served by one, and met no other save.

The data directory is the pod's own and survives its restart. If several pods shared
one volume, the file of one would be the file of all; that is not modelled.

### MeshClients

One managed client. The server keeps two documents of it, the record (its system,
whether it is revoked) and the actions (the pending order and the last completed one),
and no handler locks them: each reads both and writes whole documents back, so a Get
and a Set are the steps. The store has Redis in front: `oldRecords` and `oldActions`
are the documents that Redis may still answer with after a write that it missed or
that met a late fill (`PlatformKVHot` says when that happens), until they expire. A
write that fails may have been done; a record that cannot be read does not exist for
the handler, and actions that cannot be read are empty. A *conn* is one request, from
the device or from an administrator, with the handler's copy of what it has read;
`does` is the handler and `at` the document it turns to next. `device` is the agent's
loop: it reports, carries out the order an answer brings, acknowledges it once and
forgets it. When the client's 10 seconds are over the agent goes on and the handler
does too, so the device's second conn may overtake the first. An order's id is a UUID;
here it is its number, and `MaxOrders` bounds them. `MaxMishaps` counts timeouts, lost
requests, failed reads and writes, writes that Redis missed and restarts together.
`told`, `tried` and `dropped` are history: orders confirmed to an administrator, tried
on the device, and taken away by a handler that wrote its older copy of the actions.
`sealed` is set by a revocation that no report was in the middle of and after which no
older record is served, or when the older ones expire.

A report that has read the record before a revocation, or that Redis answers with the
record of before, writes it back unrevoked; that is what `sealed` excuses, and
`docs/mesh-native-client.md:11` does not.

### OpsAlert

The minute ticker of each process that runs the background jobs, over one saved state.
`tick` is one tick: the minute it took for "now", the rules still to come and its copy
of the two maps `PendingSince` and `LastFiring`. A rule is skipped, silenced, quiet,
pending or firing; which of them is the environment's choice (Prometheus, the
silences), but for the time a condition has lasted, which the tick computes. The
state's document and the report's date lie in the KV of `PlatformKVHot`: a Get that
fails gives an empty state or no date (`Nothing`, `ReadsDate`); a save may fail
unnoticed, or be done although it failed; and a save that Redis has missed leaves the
documents of before to be served (`older`, `oldDate`) until they expire (`Forget`) or
a save reaches Redis. The process may end within a tick, and a second process may
start while the first is leaving (`LeaderJobs`). `MaxUpsets` counts all these. The
clock counts the minutes of one day and stops at `MaxClock`. `said`, `quiet`, `hasty`
and `reports` are history; `spoilt` says that a tick was cut off, read something else
than what was saved, failed to save or met another one, for which the code promises
nothing.

### MCServer

`RuntimeSync`, `MeshClients` and `OpsAlert` share no state; a behaviour of `MCServer`
is one of four foci: the settings, two orders to a mesh client, an order and a
revocation, or the alerts. Of two idle conns of the same kind it takes the first,
which loses nothing since they are alike.

### ApiGate

`apiInFlight` and `apiWaiters` are the counter and the queue of `lib/api.ts`. The
point of the model is JavaScript's order: `micro` is the list of microtasks that run
before the next task, and `apiAcquire`, `apiRelease` and the resumption of a woken
request each run in one of them. A task is a call, a fetch that settles, or an abort
of some requests together with calls from the callbacks it resolves. `overtaken`
records that a call took a slot which a woken request had yet to count: then, and
only then, the gate lets more than its limit through.

### SignIn

One tab: `tab` is its path and what `AuthProvider` knows, `statuses` its requests for
the status, up to `MaxStatuses` at once, each evaluated by the server in one step and
received by the tab in a later one (nothing orders their answers), `reply` a page's
request, `cached` whose data the query cache holds, `login` the login or logout in
progress; a login that the tab left with an older status is `abandoned` and still sets
its cookie.

The server's two checks stand side by side as in `auth.go`: `sessionAuthFromCookie`,
which the status endpoint uses, and `Served`, the middleware's, which also asks
whether the account is disabled. `rollout` is the set of builds that serve requests,
since a cookie is bound to the build that minted it. Others act as far as
`MaxTurns`: an administrator disables and enables (the row first, then the session,
whose error is dropped), another tab and another machine log in. `excused` records that
somebody logged in, here or in another tab, while this tab or a status on its way named
somebody else, or that a status said "out" to the application while it had data or a
request.


### ViewTerminal, CloudVmTerminal

`ViewTerminal` is the shape of the terminals that live in an effect: each run of the
effect cancels and tears down the one before; `sess` is the socket of each run, from
the wait for the terminal's place in the page to its last event, and every callback
looks at its own `cancelled`. The page may also call the hook's teardown itself
(`TearDown`: the link back to the pod, the sheet that closes); `torn` records that,
and until the effect runs again nothing is claimed of what the view says.
`CloudVmTerminal` is the cloud host's sheet, which connects on a click: one flag in a
ref for every attempt, checks that are awaited, something to dispose of only once the
shell is ready, and no cleanup when the page goes. `disturbed` collects the attempts
that met another one, a sheet that was closed early or an unmount, for which the code
promises nothing.

### CapturePanel

The panel's list and status queries are modelled with the moments at which the server
reads (`ServeList` in two halves: sessions, then the directory) and at which the
effects consume an answer (`ShowList`, `ConsumeStatus`). The server's side is what
`VmCapture` establishes: `NoStatusGap` is why a capture leaves the list of sessions
only when its sidecar is there, or could not be written ("lost"), which the panel
announces as a stop. Of a capture's lines the server has the last `RingLines` and the
panel the last `ShownLines`, both 300 in the code. `holed` records the two situations
in which the preview loses lines: a start whose answer comes after the list has shown
the capture, and a panel that is mounted on a status of before.

### DocEditor

A body is the set of edits it contains, each naming the document it was made for, so
that text of one document in the row of another is visible. `detail`, `stale` and
`fetch` are the query of the open document, `redis`, `fills` and `stored` the server's
copies; a read fills Redis later than it read the row, and a save removes the cached
detail after it wrote the row. `contentKind` is what the editor takes the document for,
`scene` the canvas of the drawing pane, `drawn` its debounce and `timers` the debounces of
panes that are gone, which nothing clears. When the query's data change (`ShowData`) the
first render still has the body and the kind of before, and an effect sets both: a pane
which that render mounts, because the document before was a drawing too, may take the body
of before for its canvas. Whether Excalidraw reads it before the effect's render or after
is its own matter, and a choice in the model. `hasty` records this, a late timer that set
another body than the one there, and a save while the document was being fetched; `behind`
a cache that was left behind the row.

### PageTables, PageQueries

`PageTables` is data: for 59 panels of the console the queries each shows, as the
server's facts they tell, and its mutations, as the facts they change and the queries
they invalidate or refetch, read off `useQuery`, `useMutation` and `invalidateQueries`
of each page. `ConsoleForgotten` lists the pairs of a mutation and a query that tells
what the mutation changed and is not refreshed by it: it is exact, and TLC evaluates
the assumption `PanelsRefresh` that nothing is missing. `ApiCached` lists the queries
whose path the API's response cache answers, and `PlatformKVFacts` the facts that the
server keeps in the platform KV.

`PageQueries` is what happens to one query: pages are opened and left, requests asked,
joined, cancelled, answered, mutations applied by the server and answered in any
order, and the response cache (`kept`) answers, forgets with time and is filled by
others. A query that tells a fact of the platform KV may be answered from an older
copy of it in Redis (`ServeOldCopy`; `PlatformKVHot` says when there is one), or as if
it were empty when it could not be read. It is parameterised by the table, so that
what is proved holds for every table in which mutations refresh what they change.

### MCBrowser

The seven parts above share no state. `MCBrowser` instantiates them together and a
behaviour is one of them, chosen at the start (`focus`); the two terminals are two
foci, and the signing in is two with different bounds. A product of the parts would
only multiply their states.

## Runs

| Run | Instance | Question |
|---|---|---|
| `capture` | 3 VMs, limit 2, 1 capture with stop and delete handlers and timer | slot limit, one capture per VM; status hand-over, deletion, reasons; slots come back: refinement of `CaptureSlots` |
| `leader` | 3 pods, 4 faults, before or after the setup | exclusion of elected pods, jobs resume |
| `leader_overlap` | 2 pods, 1 fault | *violated*: only the holder of the Lease runs jobs |
| `baota` | 1 domain, 2 pods, 2 attempts, 1 retry of a deletion, 2 faults | the report is true and settles, no resurrection, publication |
| `baota_exists` | 1 domain, English panel | *violated*: "already exists" means it exists |
| `store` | 3 requests or clients (one bypassing the cache), TTL 1, everything may fail; a small and an oversized value, or 2 requests that keep 2 sessions | staleness is bounded and has a cause; sessions are lost only for known reasons |
| `runtime` | 2 pods, 2 fields, one of them masked, 2 saves, 1 failure or restart | up to date means up to date; saves keep other fields |
| `server` | one at a time: 2 pods, 1 save, 2 failures or restarts; 2 conns of a Linux device and 2 of administrators, 2 orders or an order and a revocation, 1 mishap; 2 workers, 1 rule that must hold for 2 minutes, 5 minutes, 2 upsets | pods catch up; orders arrive, only tried ones are completed, revocations stand; notices and state agree, no rule fires early, one report |
| `mesh_macos` | 1 order to a macOS client, no mishap | *violated*: a confirmed order is carried out |
| `runtime_adopt` | 2 pods, 1 save | *violated*: all pods agree after a save |
| `browser` | one at a time: 4 requests at a gate of 2; 2 users, one with two-step verification, 2 requests for the status at once and 1 turn of others, or 1 request and 2 turns; 4 runs of an effect; 3 connects; 2 captures with 2 lines and 1, of which server and panel keep 1; 3 documents (two of them drawings), 1 edit, 1 late fill; all panels, of queries and pages that look alike one each, 2 mutations on their way | the gate counts right; a tab that is sent away arrives; no user sees another's data; views and shells belong to their sessions; previews are whole and ends true; documents keep their bodies; pages are current |
| `signin_loop` | the tab alone, whose requests never fail | *violated*: who is told to log in again gets the form |

**Why the bounds are enough.** The interesting cases need few actors: two starts
racing for a slot and a third VM to fill the limit; a stopper that timed out beside
the pump, the timer and a second stopper; a holder, a rival and a third pod that takes
over; a run that holds a domain on its list while a second run or a deletion acts on
it; a reader with an old value, a writer, and a bypassing writer; a save, a load for
it and a load of the loop; two holders of the gate, a waiter and an overtaker; an
effect whose third run meets callbacks of the first and second; a capture that follows
another in the same panel; a mutation that is answered while a second one is applied;
a report that was given up beside the next one, an order and a revocation; a worker
that starts while another one leaves. Fault bounds count crashes, failed calls and
cancelled requests together. `Attempts` is 2 where the code has 4 so that both "try
again" and "give up" happen; the trim keeps 2 sessions where the code keeps 16 so that
it happens with three clients; the TTL is 1 tick where it is 300 seconds, which keeps
the order of events and drops the empty waiting. Where an invariant is also proved,
the bound no longer matters.

**Reductions.** `store` and `runtime` use symmetry (no temporal property is checked
there, only invariants and an action property) and a VIEW that hides what no later
step reads: the value and clock of a request that is over, a history variable of the
store, the edits of a save that has reached MySQL. In `runtime` no save edits all
fields, since it would have none to keep. In `browser`, the parts that are not in
focus have one initial state; a panel that is `holed` and an editor that was `hasty`
stop, since nothing is claimed of them any more, and so does a tab that is `excused`
and was not sent away (a page load ends the excuse), with either two requests for the
status on their way (`SeveralStatuses`) or two turns of others (`SeveralTurns`); of
the panel's second capture one line less is seen and only that it failed
(`LaterCaptures`), an editor whose cache is `behind` makes one edit less; and of three
documents a canvas is told again only if it differs from the body, one late timer is
on its way at a time, and the second drawing's caches see only this tab (`QuietDocs`).
Of the queries, and of the pages for a query, that look the same to every step of
`PageQueries`, one is enough (`SomeQueries`, `SomePages`). `CHECK_DEADLOCK FALSE` is
given where the system may rest: all captures used up, all saves made, pods that never
campaigned, and a tab whose user does nothing.

**Fairness** is stated per goroutine, timer or effect and nowhere else:

- `VmCapture`: a start call gets an answer, a goroutine that can run runs, a timer
  fires, a timed wait ends. Nothing is assumed of the pump, which reads from the
  guest and may hang, of the guest, or of clients.
- `LeaderJobs`: Kubernetes restarts pods, client-go retries every 5 s, `Shutdown` is
  bounded to 30 s, the API server comes back in the end.
- `BaotaSync`: every call has a timeout, so a run and a deletion go on; the informer's
  resync comes back. Nothing is assumed of the timer, which a setting may switch off,
  and no user has to act.
- `RuntimeSync`: the ticker ticks and started tasks go on; nobody has to save.
- `MeshClients`: the agent's loop goes on and so does a report's handler, and Redis'
  copies expire; administrators need not finish. Mishaps are bounded, so that the
  agent is not cut off for ever.
- `SignIn`: the browser runs its effects and its requests are answered or fail; an
  administrator's request that has begun ends, and so does a rollout. No user has to
  do anything.

`OpsAlert` and the other browser modules state safety only.

Every property of a passing run has a *mutant*: a definition changed the way a
plausible bug would change the code, under which the run fails. They stand in the
modules beside what they replace, marked "Mutant".

## Proofs

Eight modules hold proofs; they check with SMT, Zenon and (for the temporal steps)
LS4. All results are for arbitrary values of the constants, under the named ASSUMEs
of each module, which TLC evaluates on the instances.

**VmCaptureProofs.** `SlotBound` alone is not inductive: between the two critical
sections of `start` the reservation has to last. `SlotInv` adds that a start whose
file is open still has its reservation, and that two such starts are for different
VMs. Then `Register` trades a reservation for a session, the count stays, and the
second check of `start` finds nothing (`RecheckIsIdle`). The same argument gives the
safety half of the refinement, `ImplementsSlotTable`: initial states are the table's
and every step is one of the table's or none, `Reserve` being `Take` because the sum
that the code compares is the number of slots in use. Two more invariants carry the
files and reasons: `FilesInv` says where `finalize` has to be for the sidecar to
exist, to be lost or to have been deleted; `ReasonsInv` says that whoever is past
`requestStop` found a reason or left one, and that the pump runs out of packets
without one only if the remote side ended it or the stream was unreadable. Theorems:
`TypeCorrect`, `SlotInvariant`, `SlotBoundHolds`, `OnePerVMHolds`, `RecheckIsIdle`,
`NoStatusGapHolds`, `DeleteFindsSidecarHolds`, `DeletedStaysDeletedHolds`,
`SidecarReasonHolds`, `ImplementsSlotTable`.

**LeaderJobsProofs.** `LeaseInv` is inductive together with types: a leader is the
holder; a holder leads or is on its way out; the Lease of a holder that is not
ending is at most `RetryPeriod + RenewDeadline` old; a pod that is down or waits
runs nothing. Only `Tick` makes a Lease older and it waits for a leader that is due;
only `Acquire` makes a leader and it needs a free Lease, which
`RetryPeriod + RenewDeadline < LeaseDuration` denies while another one leads.
Theorems: `TypeCorrect`, `LeaseInvariant`, `OverlapOnlyWhileLeavingHolds`,
`ExpiryFindsNoJobsHolds`.

**BaotaSyncProofs.** `CleanInv`: a domain that was deleted cleanly has no Ingress, no
site, and is neither on a run's list nor its current domain; a run lists only
domains with an Ingress, so nothing brings the site back. `RunInv`: what a run has
called OK is on the panel but for what was deleted since it turned to it, and the same
of the current domain, step by step (a site before a proxy); the report is what its
runs have recorded, spoiled by the same deletions. Steps of the other pods only add to
the panel. Theorems: `TypeCorrect`, `NoResurrectionHolds`, `ReportTruthfulHolds`.

**StoreProofs.** `StaleInv` ties the age of a stale value to the time since the store
was written or an old value was being sent: a stale entry's remaining TTL plus `quiet`
never exceeds `TTL + SetTime`, because whoever put it there read or wrote the store
before its last write and dialled while its context was open; while it is sending,
`quiet` stands still at 0. `RaceInv` says that without a recorded race no request
carries a stale value to Redis. `SessionInv` builds on both: a session's request is a
request of the store (`StepsOfStore`), a login that is alone carries every session
that is not excused from its read to its write, and one that is not alone excuses
everybody. Theorems: `KVTypeCorrect`, `QuietThenCoherentHolds`,
`StaleOnlyAfterRaceHolds`, `SessionsKeptHolds`.

**ServerProofs** is about three modules. *RuntimeSync*, per pod: `Seen` (what the loop
has seen is never ahead of the revision, and a load is for a newer revision than the
noted one), `Noticed` (two loads of a pod are noticed and whatever disturbs a load
leaves the pod blind) and `Current` (an undisturbed load carries MySQL's settings as
long as the revision it was started for is the current one). `Pooled` says that a pod
without a pool rests blind. `KeepInv` says that a save which is still `abreast` has
MySQL's settings in its form, and later MySQL's values in the fields it does not edit.
*MeshClients*: `TriedInv` says that the device has tried whatever is or may come to be
recorded as completed: the completed order, every handler's copy of it, the id of
every acknowledgement on its way and the order the agent is about to acknowledge; ids
that a late acknowledgement carries are therefore harmless. `SealInv` says that a
report past its check has read an unrevoked record, and that once a revocation is
sealed no such report is left and no such record can be read, from MySQL or from
Redis; a new report reads a revoked one and is refused. *OpsAlert*: `Undisturbed`
holds as long as nothing is `spoilt`: at most one tick is under way; the state that
counts (the tick's copy, or the saved one between ticks) is what was said; a rule that
is pending was last seen quiet no later than its start, so that it fires after the
full time; there is one report exactly if its date is saved, and whoever is inspecting
found it missing. A tick that begins with another document than the saved one spoils
the history in the same step, so that `older` needs no invariant but its type.
Theorems: `TypeCorrect`, `SyncedIsCurrentHolds`, `OthersKeptHolds`; `MeshTypeCorrect`,
`CompletedWasTriedHolds`, `RevocationStandsHolds`; `AlertTypeCorrect`,
`FiringAsSaidHolds`, `FiringEarnedHolds`, `DailyOnceHolds`.

The three parts are put together in `MCServer`: `ServerStep` shows that a step of the
composition is a step of each part or leaves it alone, so that the parts' theorems carry
over (`ServerTypeCorrect`, `ServerSafe`).

**ApiProofs** is about two modules. *ApiGate*: the counter alone is not inductive.
`QueueInv` adds that whoever stands in the queue waits and stands there once; then a
release wakes somebody who holds nothing, an admitted request is counted once, and the
cardinalities of holders and of those who are busy follow the counter. *SignIn*:
`CacheIsOwn` speaks of a page that is shown, and says too little of the ways there.
`SignInv` says of a tab that is not excused: the cookie is of the user whom the tab
shows or of nobody, and so are the cached data, the answer on its way and every status
that has been evaluated and not yet received, which are all of one user; at the login
page and while nobody is shown, nothing is cached or on its way. The excuses are two:
somebody logged in, here or in another tab, while the tab or a status on its way named
another user, and a status said "out" while data were there or on their way. Names of
users are assumed to differ from the states of a request, which share a variable with
them. Theorems: `GateInvariant`, `CountsHoldersHolds`, `NoWaiterStrandedHolds`,
`LimitKeptHolds`; `SignInSafe`, `CacheIsOwnHolds`.

**VmViewProofs** is about three modules. *ViewTerminal*: `ViewInv` says that the runs
before the last are cancelled and torn down, that those after it have not begun, that
what the view says follows the last one's stages until the page tears it down, and
that then it has no socket. *CloudVmTerminal*: `SheetInv` says that an attempt which
nothing has disturbed is alone, and that while it is under way the sheet is open and
its flag down. *CapturePanel*: `SaidAsEnded` needs to know that a list on its way is
not older than what the panel has said: `ListInv` says that the captures the panel
knows of have started and that one the list does not say to run has ended, and
`FilesInv` that the directory, read in the list's second half, has a file for each of
these which tells its true end, if one could be written. `PreviewWhole` needs
`StatusInv`: a status that is asked for continues the cursor of the capture it is of,
with the lines that the server still has (`LatestOf`: whatever both keep, the last
lines are there), and the status of a capture that the list has left is never shown
again under it. `HiddenInv` says that a panel which is away has no request and no
preview. Theorems: `ViewInvariant`, `ViewIsCurrentHolds`, `SheetInvariant`,
`ShellIsHeldHolds`, `PanelInvariant`, `PreviewWholeHolds`, `SaidAsEndedHolds`.

**BrowserProofs** is about two modules and the composition. *PageQueries*: `PageInv`
says that old data are either about to be refreshed by a change that the server has
made and not yet answered, or known to be old, and then a page that shows them has
asked; an answer that missed a change is only on its way while that change's refresh
is still to come. An answer from an older copy, kept or stored, is recorded in
`leftBehind` until a current one has come. The one fact it needs of the pages is
`PanelsRefresh`, which TLC evaluates on the console's tables. *DocEditor*: `BodyIsOwn`
speaks of the rows only. `OwnInv` says the same of every copy: the cache, the fills on
their way, the query, the answer, the editor's body once its query has data, and the
save, which is why no late answer mixes two documents; of the canvas it says that it
has at least what the body has, so that a timer loses nothing. There is no canvas for
a text or while the document is loading (`DocsTypes`), when typing or a failed fetch
could come in between. `FreshInv` says what may be older than the row: a cache that
the save in progress has yet to clear, and a query that is stale and asked again
before it is shown; so a save has at least what the row has, which is the action
property `SavesAddUp`. *MCBrowser*: as for the server, `BrowserStep` and
`BrowserParts` carry the theorems over to the composition that the run checks
(`BrowserTypeCorrect`, `BrowserSafe`). Its restrictions (a panel with a hole, a hasty
editor and an excused tab stop, later captures and the second drawing do less) are not
needed: the parts' theorems are for the parts as they are. Theorems: `PageInvariant`,
`PageIsCurrentHolds`, `DocsInvariant`, `BodyIsOwnHolds`, `SavesAddUpHolds`,
`BrowserTypeCorrect`, `BrowserSafe`.

Invariants that only the proofs state, and no run any more, were checked with TLC
before: `SlotInv`, `RecheckNeverFires`, `LeaseInv`, `ExpiryFindsNoJobs`, `StaleInv`,
the return of every slot by itself (`ImplementsSlots` has it), two captures of one VM
against a limit of two, and the types of `VmCapture`, `BaotaSync`, `RuntimeSync` and
`PlatformKVHot`. So were `PanelInv`, `DocsInv` and `SignInv`, before their proofs.

## Findings

Five runs end in a violation of something a comment or a message in the repository
says:

- **`leader_overlap`.** The Lease is released on SIGTERM at once, while jobs that
  ignore the context run on until the HTTP server has drained: for up to 30 s a second
  pod runs the same jobs. The same claim fails in a second way, which the `leader` run
  contains and `OverlapOnlyWhileLeaving` excuses: pods that booted before the setup
  wizard, or whose client could not be made, run all jobs unelected, also after the
  setup. (The run has `ClientMayFail` FALSE, so that its trace is the SIGTERM's.)
- **`baota_exists`.** Any panel message that contains "exist" counts as "already
  exists", "not exist" included; a proxy on a site that was deleted meanwhile is then
  recorded as a success.
- **`runtime_adopt`.** The polling loop takes the first revision it sees for granted.
  A save between a pod's boot load and its first tick, or the first save ever (the
  setup, run on another pod), is never loaded by that pod.
- **`mesh_macos`.** The record of a macOS client says "macos", its agent reports Go's
  name "darwin", and the report's handler demands that they are equal
  (`mesh_clients.go:511`): every report of a macOS client is refused, and no order ever
  reaches it, although `docs/mesh-native-client.md` promises both.
- **`signin_loop`.** A disabled user's requests are answered with 401 and "log in
  again", while the status endpoint does not ask whether the account is disabled. A
  login checks that once, with the password, and stores its session later; if an
  administrator disables the account and removes its sessions in between, a disabled
  user has a session, and the tab goes from the page to the login page and back
  without end. No request has to fail for that; where requests may fail, a removal
  that fails, which is ignored, leads there too. `SentAwayArrives` is what holds
  instead: it excuses exactly such an orphaned session, and a status that could not be
  read.

The models show more that no comment contradicts as directly; the history variables
name them. A capture whose sidecar cannot be written, because the disk is full, say,
is announced as a plain stop although it failed ("lost"). A pod's terminal page whose
link back is opened in another tab closes its session silently and goes on saying that
it is open. Two reloads of a pod that overlap may leave the older settings in memory,
with the new revision noted as seen; a logout's cleared entry may be filled into Redis
again by a reader that was on its way and is then served for up to a TTL; two logins
at once lose one session; the 17th IP may be trimmed by its own login (`blind`,
`excused`). A revocation that comes between a report's read and its write is undone by
it, as it is by a report that Redis answers with the older record; of two orders given
at once, or given while a report acknowledges, one may vanish although it was
confirmed (`sealed`, `dropped`). An alert whose tick did not save, or could not read
the state, is announced again, or its end is not, and a daily report whose date cannot
be read is made twice (`spoilt`). A call from a microtask may take the slot that a
woken request was promised, and the gate then lets one more through (`overtaken`). A
shell of a cloud host that is opened twice, or whose page is left, may stay open
without anybody to close it (`disturbed`). A drawing that is opened after another
drawing may mount with the body of that one and store it as its own; a drawing's timer
of a document that has been left sets the body of the next one, and saving before a
document has loaded stores the body of the one before (`hasty`). The API's response
cache is not cleared by changes: a page that refreshes after its own change may be
answered with what was kept before, as it may with an older copy of the platform KV's
document (`leftBehind`), and `ConsoleForgotten` lists the mutations after which
another page keeps showing what was, until its data grow old or it polls.

## Limits

Every safety invariant and every action property that a run checks is also proved.
Only model-checked is liveness: `JobsResume`, `Published`, `ReportSettles`, `CatchesUp`,
`CommandArrives`, `SentAwayArrives`, and of `ImplementsSlots` the half that says that
slots come back (its safety half is `ImplementsSlotTable`). The prover handles neither
fairness nor ENABLED. The claims that runs find violated are refuted on one instance,
which is enough.

What is left out of the modelled components:

- `VmCapture`: packet contents, decoding and analysis; the memory-level race on a
  session's maps (`vm_capture_engine.go:632`); cleanup and the AI report.
- `BaotaSync`: the HTTPS step's calls beyond their success, several panels per
  cluster, changes of the configuration, the target URL of a proxy.
- `RuntimeSync`: validation of settings and the clients a reload opens; the copy of
  the settings in Redis; the import of a file into an empty MySQL; that the settings'
  GET masks the panels' keys inside the pod's own settings
  (`settings_runtime_handlers.go:39`; the configuration its requests use is another
  copy).
- `MeshClients`: the build, download and installation of the packages and retries of a
  join, the agent's local commands, the list of clients, what tailscale does with an
  order (a failure is acknowledged like a success), and the deletion of an instance.
- `OpsAlert`: what the inspection collects, the channels of a notice and their
  failures, the log of alerts, edits of the rules during a tick, more than one day,
  and the hour of the report that a failed read of the settings replaces by its
  default (rules that cannot be read are skipped, which the model contains). A tick
  that is so slow that no tick falls into the report's minute skips the report for the
  day; the model contains that, no property denies it.
- `SessionNonces`: cookies and roles around the entry, and the single-session mode,
  which is one Set.
- `LeaderJobs`: the jobs themselves are only present as "jobs"; the Baota sync is
  modelled on its own.
- `ApiGate`: bodies, error texts, the firewall's page as anything but an answer.
- `SignIn`: captcha, throttling, OIDC, the setup page, several sessions per user
  (those are in `SessionNonces`), a status that cannot be read at the first load.
- the terminals: what is typed, shown and resized; the server's end of a socket.
- `CapturePanel`: the form, the filter's interpreter, the viewer, the stop button; a
  sidecar that is there but cannot be read by the list; the same line shown twice.
- `DocEditor`: titles, categories, tags, publication, versions and their restoration,
  shares (whose save writes the same body), creation and deletion, and a second
  administrator, against whom the code has no check; the page without a document, what
  a pane that is mounted for one render only would report, and what the text editor
  makes of a body (it reports only what is typed).
- `PageQueries`: one query at a time; the keys' later components (instance, namespace,
  page of a list), other tabs and administrators, and what a controller does after the
  server has answered.

What stands outside `src/` (client-go, the Kubernetes API, the panel, tcpdump, Redis'
expiry, react-query, the event loop) is modelled from its use and marked external in
`PROJECT.json`.

## Not modelled

`PROJECT.json` has a row for each; the reasons are of four kinds.

- **Planned**: capture files, the audit queue, the Harbor index, mesh policy, vCenter
  events and cache, object revisions (the table above). They have protocols of their
  own and come next.
- **Pass-through**: Kubernetes objects, exec and apply, add-ons, the app center (Redis,
  Kafka, OpenSearch), cloud hosts and vendors, DNS, Authentik, Harbor administration,
  VM log search, inspection collectors, mesh traffic. A handler checks its arguments,
  makes one or a few calls to the system that owns the state and formats the answer;
  what can be wrong in it (a wrong call, a wrong format) is a matter for tests. Where
  their pages change something, `PageTables` has what the console makes of it.
- **Byte pumps and pure functions**: consoles and the SSH bastion copy bytes between
  sockets; packet decoding and the risk rules are functions over packet bytes with
  unit tests; the AI assistant's content is not a protocol.
- **Layout**: most of the frontend's lines are forms, tables, charts, wizards and
  styles. Their state is local to a component, written by the handler that shows it,
  and a model of it would repeat the code line by line. What is modelled of a page is
  what it shares with others: its queries, mutations, sockets, timers and refs. For
  the same reason the mapped lines are a small share of the repository's 97,000: the
  parts with a protocol are small.

## Plan

Done: VmCapture with CaptureSlots, LeaderJobs, BaotaSync, PlatformKVHot,
SessionNonces, RuntimeSync, MeshClients, OpsAlert; the console's ApiGate, SignIn,
ViewTerminal, CloudVmTerminal, CapturePanel, DocEditor, PageTables and PageQueries;
proofs of every safety property that a run checks. Next, most important first:

1. VmCaptureFiles, composed with VmCapture's sessions: cleanup removes no file of a
   running capture, a capture is removed as a whole, an orphan is removed in the end.
2. AuditQueue: each enqueued record is written or counted as dropped, also across
   the shutdown (expected to fail for records enqueued while the server drains).
3. HarborIndex: progress ends, one crawl at a time. The mesh policy's version check.
4. OpsAlert composed with LeaderJobs, whose drains are where its ticks meet.
5. DocEditor with the share's save and a second administrator.
6. Proofs of what the composed modules promise each other: that a list of the capture
   panel reads what `VmCapture`'s status hand-over guarantees, and that the ticks of
   `OpsAlert` meet only while `LeaderJobs` drains.

Runs are kept to one per question, and instances that share no state share a run with
a focus, as `store`, `server` and `browser` do; the modules above will join them the
same way.
