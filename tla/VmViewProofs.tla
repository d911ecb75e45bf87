----------------------------- MODULE VmViewProofs -----------------------------
(* Theorems about the views of a machine: ViewTerminal for any number of    *)
(* runs of the effect, CloudVmTerminal for any number of clicks, and        *)
(* CapturePanel for any number of captures and of preview lines.            *)
EXTENDS ViewTerminal, CloudVmTerminal, CapturePanel, FiniteSetTheorems, TLAPS

(* The runs before the last are cancelled and torn down, those after it     *)
(* have not begun, and what the view says follows the last one's stages,    *)
(* until the page tears it down.                                            *)
LastRun ==
    /\ sess[current] \in SocketUp \union {"waiting"} => enabled
    /\ sess[current] \in {"connecting", "connected"} => status = "connecting"
    /\ sess[current] = "exec" => status = "open"
    /\ sess[current] \in {"none", "failed", "gone"} /\ ~torn => status # "open"
    /\ sess[current] = "closing" => torn
    /\ torn => sess[current] \in {"none", "closing", "gone"}

ViewInv ==
    /\ ViewTypeOK
    /\ cancelled = {r \in Runs : r < current}
    /\ \A r \in Runs : /\ r > current => sess[r] = "none"
                       /\ r < current => sess[r] \in {"none", "closing", "gone"}
    /\ current = 0 => status # "open" /\ ~torn
    /\ current > 0 => LastRun

\* A run of the effect cancels every run before it and takes down its socket.
LEMMA RunEffectStep ==
  ASSUME ViewInv, RunEffect
  PROVE  ViewInv'
<1> USE RunsAssumption DEF Runs
<1>1. /\ current \in 0..MaxRuns /\ current + 1 \in Runs /\ current' = current + 1
      /\ enabled' \in BOOLEAN
      /\ cancelled' = cancelled \union (1..current)
  BY DEF ViewInv, ViewTypeOK, RunEffect, Cleanup
<1>2. /\ teardown \in [Runs -> {"none", "closing", "gone"}]
      /\ \A r \in Runs : r > current => teardown[r] = "none"
  <2>1. \A r \in Runs : teardown[r] \in {"none", "closing", "gone"}
    BY DEF ViewInv, ViewTypeOK, teardown, SocketUp
  <2>2. \A r \in Runs : r > current => teardown[r] = "none"
    BY DEF ViewInv, ViewTypeOK, teardown, SocketUp
  <2>3. QED
    BY <2>1, <2>2 DEF teardown
<1>3. /\ sess'[current + 1] = (IF enabled' THEN "waiting" ELSE "none")
      /\ \A r \in Runs : r # current + 1 => sess'[r] = teardown[r]
      /\ sess' \in [Runs -> {"none", "closing", "gone", "waiting"}]
  BY <1>1, <1>2 DEF RunEffect
<1>4. /\ status' \in {"idle", "connecting", "open", "closed", "error"}
      /\ (~enabled' => status' = "idle") /\ torn' = FALSE
  BY DEF ViewInv, ViewTypeOK, RunEffect
<1>b. torn' \in BOOLEAN
  BY <1>4, Zenon
<1>5. ViewTypeOK'
  BY <1>1, <1>3, <1>4, <1>b DEF ViewInv, ViewTypeOK
<1>6. cancelled' = {r \in Runs : r < current'}
  BY <1>1 DEF ViewInv
<1>7. \A r \in Runs : /\ r > current' => sess'[r] = "none"
                      /\ r < current' => sess'[r] \in {"none", "closing", "gone"}
  BY <1>1, <1>2, <1>3
<1>8. current' > 0 /\ LastRun'
  <2>1. sess'[current'] = (IF enabled' THEN "waiting" ELSE "none")
    BY <1>1, <1>3
  <2>2. QED
    BY <2>1, <1>1, <1>4 DEF LastRun, SocketUp
<1>9. QED
  BY <1>1, <1>5, <1>6, <1>7, <1>8 DEF ViewInv

(* The page's teardown leaves the last run without a socket.                *)
LEMMA TearDownStep ==
  ASSUME ViewInv, TearDown
  PROVE  ViewInv'
<1> USE RunsAssumption DEF Runs
<1>1. /\ current \in 0..MaxRuns /\ current > 0 /\ torn' = TRUE /\ sess' = teardown
      /\ UNCHANGED <<current, enabled, cancelled, status>>
  BY DEF ViewInv, ViewTypeOK, TearDown
<1>2. \A r \in Runs : /\ sess'[r] \in {"none", "closing", "gone"}
                      /\ r > current => sess'[r] = "none"
  BY <1>1 DEF ViewInv, ViewTypeOK, teardown, SocketUp
<1>3. sess' \in [Runs -> {"none", "closing", "gone"}]
  BY <1>1, <1>2 DEF teardown
<1>b. torn' \in BOOLEAN
  BY <1>1, Zenon
<1>4. ViewTypeOK'
  BY <1>1, <1>3, <1>b DEF ViewInv, ViewTypeOK
<1>5. LastRun'
  BY <1>1, <1>2 DEF LastRun, SocketUp
<1>6. QED
  BY <1>1, <1>2, <1>4, <1>5 DEF ViewInv

(* A callback of a run: nobody's but the last one's changes what is said.   *)
LEMMA CallbackStep ==
  ASSUME ViewInv, NEW r \in Runs,
         HostReady(r) \/ HostTimeout(r) \/ SocketOpens(r) \/ FirstMessage(r)
           \/ SocketEnds(r) \/ CloseDone(r)
  PROVE  ViewInv'
<1> USE RunsAssumption DEF Runs
<1>1. /\ UNCHANGED <<current, enabled, cancelled, torn>> /\ current \in 0..MaxRuns
      /\ \A s \in Runs : s # r => sess'[s] = sess[s]
      /\ sess'[r] \in {"connecting", "connected", "exec", "failed", "closing", "gone"}
      /\ ViewTypeOK'
  BY DEF ViewInv, ViewTypeOK, HostReady, HostTimeout, SocketOpens, FirstMessage, SocketEnds,
         CloseDone, Say, SocketUp
<1>2. sess[r] # "none" /\ r <= current
  BY <1>1 DEF ViewInv, HostReady, HostTimeout, SocketOpens, FirstMessage, SocketEnds, CloseDone,
             SocketUp
<1>3. CASE r < current
  <2>1. r \in cancelled /\ sess[r] = "closing"
    BY <1>2, <1>3 DEF ViewInv, HostReady, HostTimeout, SocketOpens, FirstMessage, SocketEnds,
                      CloseDone, SocketUp
  <2>2. sess'[r] = "gone" /\ UNCHANGED status
    BY <2>1 DEF ViewInv, ViewTypeOK, HostReady, HostTimeout, SocketOpens, FirstMessage,
                SocketEnds, CloseDone, SocketUp
  <2>3. current > 0 /\ current \in Runs /\ sess'[current] = sess[current]
    BY <1>1, <1>3
  <2>4. QED
    BY <1>1, <1>3, <2>2, <2>3 DEF ViewInv, LastRun
<1>4. CASE r = current
  <2>1. r \notin cancelled /\ LastRun
    <3>1. current > 0 /\ ~(r < current)
      BY <1>4
    <3>2. QED
      BY <3>1, <1>4 DEF ViewInv, LastRun
  <2>2. LastRun'
    <3>1. CASE HostReady(r)
      BY <3>1, <2>1, <1>1, <1>4 DEF HostReady, Say, LastRun, SocketUp, ViewInv, ViewTypeOK
    <3>2. CASE HostTimeout(r)
      BY <3>2, <2>1, <1>1, <1>4 DEF HostTimeout, Say, LastRun, SocketUp, ViewInv, ViewTypeOK
    <3>3. CASE SocketOpens(r)
      BY <3>3, <2>1, <1>1, <1>4 DEF SocketOpens, Say, LastRun, SocketUp, ViewInv, ViewTypeOK
    <3>4. CASE FirstMessage(r)
      BY <3>4, <2>1, <1>1, <1>4 DEF FirstMessage, Say, LastRun, SocketUp, ViewInv, ViewTypeOK
    <3>5. CASE SocketEnds(r)
      BY <3>5, <2>1, <1>1, <1>4 DEF SocketEnds, Say, LastRun, SocketUp, ViewInv, ViewTypeOK
    <3>6. CASE CloseDone(r)
      BY <3>6, <2>1, <1>1, <1>4 DEF CloseDone, LastRun, SocketUp, ViewInv, ViewTypeOK
    <3>7. QED
      BY <3>1, <3>2, <3>3, <3>4, <3>5, <3>6
  <2>3. QED
    BY <1>1, <1>4, <2>2 DEF ViewInv
<1>5. QED
  BY <1>1, <1>2, <1>3, <1>4

(* A view holds at most the socket of its effect's last run and says what   *)
(* that one's state is, for any number of runs.                             *)
THEOREM ViewInvariant == ViewSpec => []ViewInv
<1>1. ViewInit => ViewInv
  <2> SUFFICES ASSUME ViewInit PROVE ViewInv
    OBVIOUS
  <2>1. ViewTypeOK
    <3>1. current \in 0..MaxRuns
      BY RunsAssumption DEF ViewInit
    <3>2. /\ enabled \in BOOLEAN /\ cancelled \subseteq Runs
          /\ status \in {"idle", "connecting", "open", "closed", "error"} /\ torn \in BOOLEAN
      BY Zenon DEF ViewInit
    <3>3. QED
      BY <3>1, <3>2 DEF ViewInit, ViewTypeOK
  <2>2. current = 0 /\ cancelled = {} /\ status # "open" /\ ~torn /\ \A r \in Runs : sess[r] = "none"
    BY DEF ViewInit
  <2>3. \A r \in Runs : ~(r < 0)
    BY RunsAssumption DEF Runs
  <2>4. cancelled = {r \in Runs : r < current}
    BY <2>2, <2>3
  <2>5. QED
    BY <2>1, <2>2, <2>3, <2>4 DEF ViewInv
<1>2. ViewInv /\ [ViewNext]_viewVars => ViewInv'
  <2> SUFFICES ASSUME ViewInv, [ViewNext]_viewVars PROVE ViewInv'
    OBVIOUS
  <2>1. CASE RunEffect
    BY <2>1, RunEffectStep
  <2>2. CASE TearDown
    BY <2>2, TearDownStep
  <2>3. CASE \E r \in Runs : \/ HostReady(r) \/ HostTimeout(r) \/ SocketOpens(r)
                             \/ FirstMessage(r) \/ SocketEnds(r) \/ CloseDone(r)
    BY <2>3, CallbackStep
  <2>4. CASE UNCHANGED viewVars
    BY <2>4 DEF viewVars, ViewInv, ViewTypeOK, LastRun
  <2>5. QED
    BY <2>1, <2>2, <2>3, <2>4 DEF ViewNext
<1>3. QED
  BY <1>1, <1>2, PTL DEF ViewSpec

(* So only the last run has a socket, none after the page's own teardown,   *)
(* and until then the view says what its state is (the effect of            *)
(* usePodExecTerminal.ts and the teardown it hands to the page).            *)
THEOREM ViewIsCurrentHolds == ViewSpec => []ViewIsCurrent
<1>1. ViewInv => ViewIsCurrent
  <2> SUFFICES ASSUME ViewInv PROVE ViewIsCurrent
    OBVIOUS
  <2>1. current \in 0..MaxRuns /\ (current > 0 => current \in Runs /\ LastRun)
    BY RunsAssumption DEF ViewInv, ViewTypeOK, Runs
  <2>2. \A r \in Runs : sess[r] \in SocketUp \union {"waiting"} =>
          r = current /\ enabled /\ ~torn
    BY <2>1, RunsAssumption DEF ViewInv, Runs, SocketUp, LastRun
  <2>3. status = "open" /\ ~torn => current > 0 /\ sess[current] \in {"exec", "waiting"}
    BY <2>1 DEF ViewInv, ViewTypeOK, LastRun
  <2>4. current > 0 => /\ sess[current] = "exec" => status = "open"
                       /\ sess[current] = "connecting" => status = "connecting"
    BY <2>1 DEF LastRun
  <2>5. QED
    BY <2>2, <2>3, <2>4 DEF ViewIsCurrent
<1>2. QED
  BY <1>1, ViewInvariant, PTL

-----------------------------------------------------------------------------
(* The sheet: an attempt that nothing has disturbed is alone, and while it  *)
(* is under way the sheet is open and its flag down.                        *)
UnderWay == {"checking", "waiting", "connecting", "mute", "authing", "ready"}

SheetInv ==
    /\ SheetTypeOK
    /\ \A a, b \in Attempts : a # b /\ Alive(a) /\ Alive(b) => a \in disturbed
    /\ \A a \in Attempts \ disturbed :
         attempt[a] \in UnderWay => open /\ ~connectCancelledRef
    /\ ShellIsHeld

\* Releasing touches the attempt that waits and the one whose shell is to be disposed
\* of.
LEMMA ReleasedType ==
  ASSUME SheetTypeOK
  PROVE  /\ Released \in [Attempts -> {"none", "checking", "waiting", "connecting", "mute",
                                       "authing", "ready", "closing", "gone"}]
         /\ \A a \in Attempts :
              /\ Released[a] \notin {"none", "gone"} => Alive(a)
              /\ Released[a] \in UnderWay => Released[a] = attempt[a]
              /\ Released[a] = "ready" => a # disposeRef
              /\ Released[a] = "none" => attempt[a] = "none"
<1>1. \A a \in Attempts : Released[a] = CASE a = cancelWaitRef /\ attempt[a] = "waiting" -> "gone"
                                          [] a = disposeRef /\ attempt[a] = "ready" -> "closing"
                                          [] OTHER -> attempt[a]
  BY DEF Released
<1>2. QED
  BY <1>1 DEF Released, SheetTypeOK, Alive, UnderWay

\* Closing the sheet raises the flag and disturbs what was under way.
LEMMA CloseStep ==
  ASSUME SheetInv, CloseSheet
  PROVE  SheetInv'
<1>1. /\ attempt' = Released /\ cancelWaitRef' = 0 /\ disposeRef' = 0 /\ open' = FALSE
      /\ connectCancelledRef' = TRUE /\ sheet' = "idle" /\ UNCHANGED mounted
      /\ disturbed' = disturbed \union {a \in Attempts : Alive(a) /\ attempt[a] # "ready"}
  BY DEF CloseSheet, Release
<1>2. SheetTypeOK'
  <2>1. attempt' \in [Attempts -> {"none", "checking", "waiting", "connecting", "mute",
                                    "authing", "ready", "closing", "gone"}]
    BY <1>1, ReleasedType DEF SheetInv
  <2>2. disturbed' \subseteq Attempts
    BY <1>1 DEF SheetInv, SheetTypeOK
  <2>3. 0 \in 0..MaxAttempts
    BY AttemptsAssumption
  <2>4. mounted' \in BOOLEAN
    BY <1>1 DEF SheetInv, SheetTypeOK
  <2>5. QED
    BY <1>1, <2>1, <2>2, <2>3, <2>4 DEF SheetTypeOK
<1>3. \A a \in Attempts : Alive(a)' => Alive(a)
  BY <1>1, ReleasedType DEF SheetInv, Alive
<1>4. \A a \in Attempts \ disturbed' : attempt'[a] \notin UnderWay
  <2> SUFFICES ASSUME NEW a \in Attempts, a \notin disturbed', attempt'[a] \in UnderWay
               PROVE  FALSE
    OBVIOUS
  <2>1. attempt[a] = attempt'[a] /\ Alive(a) /\ a \notin disturbed
    BY <1>1, ReleasedType DEF SheetInv, UnderWay, Alive
  <2>2. attempt[a] = "ready"
    BY <2>1, <1>1
  <2>3. disposeRef = a
    BY <2>1, <2>2 DEF SheetInv, ShellIsHeld
  <2>4. QED
    BY <2>1, <2>2, <2>3, <1>1, ReleasedType DEF SheetInv
<1>5. \A a, b \in Attempts : a # b /\ Alive(a)' /\ Alive(b)' => a \in disturbed'
  BY <1>1, <1>3 DEF SheetInv
<1>6. ShellIsHeld'
  BY <1>4 DEF ShellIsHeld, UnderWay
<1>7. QED
  BY <1>2, <1>4, <1>5, <1>6 DEF SheetInv

\* A new attempt meets those that are still alive, and both sides count as disturbed.
LEMMA ConnectStep ==
  ASSUME SheetInv, NEW c \in Attempts, Connect(c)
  PROVE  SheetInv'
<1>1. /\ attempt' = [Released EXCEPT ![c] = "checking"] /\ attempt[c] = "none"
      /\ cancelWaitRef' = 0 /\ disposeRef' = 0 /\ connectCancelledRef' = FALSE
      /\ sheet' = "connecting" /\ open /\ sheet # "open" /\ UNCHANGED <<open, mounted>>
      /\ disturbed' = IF OtherAttempts(c) = {} THEN disturbed
                      ELSE disturbed \union OtherAttempts(c) \union {c}
  BY DEF Connect
<1>2. /\ attempt' \in [Attempts -> {"none", "checking", "waiting", "connecting", "mute",
                                    "authing", "ready", "closing", "gone"}]
      /\ attempt'[c] = "checking" /\ \A a \in Attempts : a # c => attempt'[a] = Released[a]
  BY <1>1, ReleasedType DEF SheetInv
<1>3. SheetTypeOK'
  <2>1. disturbed' \subseteq Attempts
    BY <1>1 DEF SheetInv, SheetTypeOK, OtherAttempts
  <2>2. 0 \in 0..MaxAttempts
    BY AttemptsAssumption
  <2>3. open' \in BOOLEAN /\ mounted' \in BOOLEAN
    BY <1>1 DEF SheetInv, SheetTypeOK
  <2>4. QED
    BY <1>1, <1>2, <2>1, <2>2, <2>3 DEF SheetTypeOK
<1>4. \A a \in Attempts : a # c /\ Alive(a)' => a \in OtherAttempts(c)
  BY <1>2, ReleasedType DEF SheetInv, Alive, OtherAttempts
<1>5. \A a, b \in Attempts : a # b /\ Alive(a)' /\ Alive(b)' => a \in disturbed'
  BY <1>1, <1>4
<1>6. \A a \in Attempts \ disturbed' : a # c => ~Alive(a)'
  BY <1>1, <1>4
<1>7. ShellIsHeld'
  BY <1>2, <1>6 DEF ShellIsHeld, Alive
<1>8. QED
  BY <1>1, <1>3, <1>5, <1>7, <1>6 DEF SheetInv, UnderWay, Alive

(* A step of one attempt, which alone may change what the sheet says.       *)
LEMMA AttemptStep ==
  ASSUME SheetInv, NEW c \in Attempts,
         ChecksPass(c) \/ ChecksEnd(c) \/ MakeSocket(c) \/ WaitTimeout(c)
           \/ SheetSocketOpens(c) \/ SshReady(c) \/ SshError(c) \/ SheetSocketEnds(c)
  PROVE  SheetInv'
<1>t. SheetTypeOK'
  <2> USE AttemptsAssumption DEF SheetInv, SheetTypeOK, At, Sheet, Attempts
  <2>1. CASE ChecksPass(c)
    BY <2>1 DEF ChecksPass
  <2>2. CASE ChecksEnd(c)
    BY <2>2 DEF ChecksEnd
  <2>3. CASE MakeSocket(c)
    BY <2>3 DEF MakeSocket
  <2>4. CASE WaitTimeout(c)
    BY <2>4 DEF WaitTimeout
  <2>5. CASE SheetSocketOpens(c)
    BY <2>5 DEF SheetSocketOpens
  <2>6. CASE SshReady(c)
    BY <2>6 DEF SshReady
  <2>7. CASE SshError(c)
    BY <2>7 DEF SshError
  <2>8. CASE SheetSocketEnds(c)
    BY <2>8 DEF SheetSocketEnds
  <2>9. QED
    BY <2>1, <2>2, <2>3, <2>4, <2>5, <2>6, <2>7, <2>8
<1>1. /\ UNCHANGED <<open, mounted, connectCancelledRef, disturbed>> /\ Alive(c)
      /\ \A a \in Attempts : a # c => attempt'[a] = attempt[a]
  BY DEF SheetInv, SheetTypeOK, ChecksPass, ChecksEnd, MakeSocket, WaitTimeout,
         SheetSocketOpens, SshReady, SshError, SheetSocketEnds, At, Sheet, Alive
<1>2. \A a \in Attempts : Alive(a)' => Alive(a)
  BY <1>1 DEF Alive
<1>3. attempt'[c] \in UnderWay => attempt[c] \in UnderWay
  BY DEF SheetInv, SheetTypeOK, ChecksPass, ChecksEnd, MakeSocket, WaitTimeout,
         SheetSocketOpens, SshReady, SshError, SheetSocketEnds, At, UnderWay
<1>4. \A a \in Attempts \ disturbed : a # c => ~Alive(a)
  BY <1>1 DEF SheetInv
<1>5. attempt'[c] = "ready" => SshReady(c)
  BY DEF SheetInv, SheetTypeOK, ChecksPass, ChecksEnd, MakeSocket, WaitTimeout,
         SheetSocketOpens, SshReady, SshError, SheetSocketEnds, At
<1>6. ShellIsHeld'
  <2> SUFFICES ASSUME NEW a \in Attempts, attempt'[a] = "ready", a \notin disturbed'
               PROVE  open' /\ disposeRef' = a /\ sheet' = "open"
    BY DEF ShellIsHeld
  <2>1. a = c
    BY <1>1, <1>4 DEF Alive
  <2>2. SshReady(c) /\ attempt[c] \in UnderWay /\ c \notin disturbed
    BY <2>1, <1>1, <1>3, <1>5 DEF UnderWay
  <2>3. open /\ ~connectCancelledRef
    BY <2>2 DEF SheetInv
  <2>4. QED
    BY <2>1, <2>2, <2>3, <1>1 DEF SshReady, Sheet
<1>7. QED
  BY <1>t, <1>1, <1>2, <1>3, <1>4, <1>6 DEF SheetInv, UnderWay, Alive

(* An undisturbed attempt is alone, and the sheet it is for is open, for    *)
(* any number of attempts.                                                  *)
THEOREM SheetInvariant == SheetSpec => []SheetInv
<1>1. SheetInit => SheetInv
  <2> SUFFICES ASSUME SheetInit PROVE SheetInv
    OBVIOUS
  <2>1. SheetTypeOK
    <3>1. cancelWaitRef \in 0..MaxAttempts /\ disposeRef \in 0..MaxAttempts
      BY AttemptsAssumption DEF SheetInit
    <3>2. /\ open \in BOOLEAN /\ mounted \in BOOLEAN /\ connectCancelledRef \in BOOLEAN
          /\ sheet \in {"idle", "connecting", "open", "closed", "error"}
          /\ disturbed \subseteq Attempts
      BY Zenon DEF SheetInit
    <3>3. QED
      BY <3>1, <3>2 DEF SheetInit, SheetTypeOK
  <2>2. \A a \in Attempts : attempt[a] = "none"
    BY DEF SheetInit
  <2>3. QED
    BY <2>1, <2>2 DEF SheetInv, ShellIsHeld, Alive, UnderWay
<1>2. SheetInv /\ [SheetNext]_sheetVars => SheetInv'
  <2> SUFFICES ASSUME SheetInv, [SheetNext]_sheetVars PROVE SheetInv'
    OBVIOUS
  <2>1. CASE OpenSheet
    BY <2>1 DEF OpenSheet, SheetInv, SheetTypeOK, ShellIsHeld, Alive
  <2>2. CASE CloseSheet
    BY <2>2, CloseStep
  <2>3. CASE Unmount
    BY <2>3 DEF Unmount, SheetInv, SheetTypeOK, ShellIsHeld, Alive, UnderWay
  <2>4. ASSUME NEW a \in Attempts, Connect(a) PROVE SheetInv'
    BY <2>4, ConnectStep
  <2>5. ASSUME NEW a \in Attempts,
               ChecksPass(a) \/ ChecksEnd(a) \/ MakeSocket(a) \/ WaitTimeout(a)
                 \/ SheetSocketOpens(a) \/ SshReady(a) \/ SshError(a) \/ SheetSocketEnds(a)
        PROVE  SheetInv'
    BY <2>5, AttemptStep
  <2>6. CASE UNCHANGED sheetVars
    BY <2>6 DEF sheetVars, SheetInv, SheetTypeOK, ShellIsHeld, Alive
  <2>7. QED
    BY <2>1, <2>2, <2>3, <2>4, <2>5, <2>6 DEF SheetNext
<1>3. QED
  BY <1>1, <1>2, PTL DEF SheetSpec

\* So a shell belongs to an open sheet that shows it and can dispose of it.
THEOREM ShellIsHeldHolds == SheetSpec => []ShellIsHeld
  BY SheetInvariant, PTL DEF SheetInv

-----------------------------------------------------------------------------
(* The requests in each of their stages.                                    *)
Asked == [at |-> "asked"]
HalfLists == [at : {"half"}, running : 0..MaxCaptures]
WholeLists == [at : {"answered"}, running : 0..MaxCaptures, files : [Captures -> Fates]]
AskedStatuses == [at : {"asked"}, after : 0..MaxLines]

PanelTypes == PanelTypeOK /\ (starting.at = "served" => starting.of # 0)

(* A list that is being made is of captures that had started, and the      *)
(* captures the panel knows of and the list does not say to run have ended. *)
Started(c) == c = active \/ ended[c] # "none"
Known == {list, lastRunningNameRef} \ {0}
Made == {"half", "answered"}

ListInv ==
    /\ active # 0 => ended[active] = "none"
    /\ \A c \in Known : Started(c)
    /\ listFetch.at \in Made =>
         /\ listFetch.running # 0 => Started(listFetch.running)
         /\ \A c \in Known : c # listFetch.running => ended[c] # "none"

FilesInv ==
    listFetch.at = "answered" => \A c \in Captures :
         /\ listFetch.files[c] \in Ends => ended[c] \in {listFetch.files[c], "deleted"}
         /\ listFetch.files[c] \in {"lost", "deleted"} => ended[c] = listFetch.files[c]
         /\ c \in Known /\ c # listFetch.running => listFetch.files[c] # "none"

(* A panel that is away has no request and no preview.                      *)
HiddenInv ==
    ~shown => /\ listFetch = NoStatus /\ statusFetch = NoStatus /\ starting = NoStart
              /\ cursorSessionRef = 0

(* The lines up to the m-th that the server has after the n-th, and those   *)
(* that the panel shows.                                                    *)
RingOf(n, m) == {k \in 1..m : k > n /\ k + RingLines > m}
LastShown(m) == {k \in 1..m : k + ShownLines > m}

(* A status is asked for after the cursor of the capture it is of, and the  *)
(* list never comes back to a capture whose status the cache has.           *)
StatusInv ==
    /\ cursorRef <= consumedSeqRef
    /\ \A c \in Captures : statusOf[c].at = "answered" /\ c # list =>
         ended[c] # "none" /\ (listFetch.at \in Made => listFetch.running # c)
    /\ statusFetch.at # "none" => list # 0
    /\ ~holed /\ statusFetch.at = "asked" => statusFetch.after = after(list)
    /\ ~holed /\ statusFetch.at = "answered" =>
         statusFetch.lines = RingOf(after(list), statusFetch.seq)

PanelInv ==
    PanelTypes /\ ListInv /\ FilesInv /\ HiddenInv /\ StatusInv /\ SaidAsEnded /\ PreviewWhole

\* The states of the requests for the list and for the status.
LEMMA FetchTypes ==
  ASSUME PanelTypes
  PROVE  /\ listFetch.at \in {"none", "asked", "half", "answered"}
         /\ listFetch.at = "none" => listFetch = NoStatus
         /\ listFetch.at = "half" => listFetch \in HalfLists /\ listFetch.running \in 0..MaxCaptures
         /\ listFetch.at = "answered" =>
              /\ listFetch \in WholeLists /\ listFetch.running \in 0..MaxCaptures
              /\ listFetch.files \in [Captures -> Fates]
         /\ statusFetch.at \in {"none", "asked", "answered"}
         /\ statusFetch.at = "none" => statusFetch = NoStatus
         /\ statusFetch.at = "asked" => statusFetch.after \in 0..MaxLines
         /\ statusFetch.at = "answered" => statusFetch \in Statuses
<1>1. /\ NoStatus.at = "none" /\ Asked.at = "asked"
      /\ \A x \in HalfLists : x.at = "half" /\ x.running \in 0..MaxCaptures
      /\ \A x \in WholeLists : /\ x.at = "answered" /\ x.running \in 0..MaxCaptures
                               /\ x.files \in [Captures -> Fates]
      /\ \A x \in AskedStatuses : x.at = "asked" /\ x.after \in 0..MaxLines
      /\ \A x \in Statuses : x.at = "answered"
  BY DEF NoStatus, Asked, HalfLists, WholeLists, AskedStatuses, Statuses
<1>2. listFetch \in ListFetches /\ statusFetch \in StatusFetches
  BY DEF PanelTypes, PanelTypeOK
<1>3. QED
  BY <1>1, <1>2 DEF ListFetches, StatusFetches, Asked, HalfLists, WholeLists, AskedStatuses

\* A panel that has asked for nothing says nothing and shows no line.
LEMMA PanelInitInv == PanelInit => PanelInv
<1> SUFFICES ASSUME PanelInit PROVE PanelInv
  OBVIOUS
<1>1. PanelTypes
  <2>1. /\ active \in 0..MaxCaptures /\ list \in 0..MaxCaptures /\ cursorRef \in 0..MaxLines
        /\ consumedSeqRef \in 0..MaxLines /\ cursorSessionRef \in 0..MaxCaptures
        /\ lastRunningNameRef \in 0..MaxCaptures
        /\ seq \in [Captures -> 0..MaxLines]
    BY PanelAssumption DEF PanelInit
  <2>2. /\ ended \in [Captures -> Fates] /\ said \in [Captures -> {"none"} \union Ends]
        /\ statusOf \in [Captures -> {NoStatus} \union Statuses]
    BY DEF PanelInit, Fates
  <2>3. /\ shown \in BOOLEAN /\ holed \in BOOLEAN
    BY Zenon DEF PanelInit
  <2>4. /\ lines \subseteq Captures \X (1..MaxLines)
        /\ listFetch = NoStatus /\ statusFetch = NoStatus /\ starting = NoStart
    BY DEF PanelInit
  <2>5. starting \in [at : {"no", "asked", "served"}, of : 0..MaxCaptures] /\ starting.at = "no"
    BY <2>4, PanelAssumption DEF NoStart
  <2>6. PanelTypeOK
    BY <2>1, <2>2, <2>3, <2>4, <2>5 DEF PanelTypeOK, ListFetches, StatusFetches
  <2>7. QED
    BY <2>5, <2>6 DEF PanelTypes
<1>2. /\ listFetch.at = "none" /\ statusFetch.at = "none"
      /\ \A c \in Captures : statusOf[c].at = "none"
  BY DEF PanelInit, NoStatus
<1>3. ListInv /\ FilesInv /\ HiddenInv /\ SaidAsEnded /\ PreviewWhole
  BY <1>2 DEF PanelInit, ListInv, FilesInv, HiddenInv, SaidAsEnded, PreviewWhole, Known, Made
<1>4. StatusInv
  BY <1>2 DEF PanelInit, StatusInv
<1>5. QED
  BY <1>1, <1>3, <1>4 DEF PanelInv

(* A capture that has started stays started, and an end is only deleted.   *)
Lasts ==
    /\ \A c \in Captures : /\ ended[c] \in Ends => ended'[c] \in {ended[c], "deleted"}
                           /\ ended[c] \in {"lost", "deleted"} => ended'[c] = ended[c]
                           /\ Started(c) => Started(c)'
    /\ active' # 0 => ended'[active'] = "none"

(* What others do to captures.                                              *)
LEMMA CaptureStep ==
  ASSUME PanelInv,
         (\E c \in Captures : StartElsewhere(c) \/ DeleteFile(c)) \/ Packet
           \/ (\E how \in Ends \union {"lost"} : EndCapture(how))
  PROVE  PanelInv'
<1> USE DEF PanelInv
<1>1. UNCHANGED <<shown, queries, preview, starting, history>>
  BY DEF StartElsewhere, DeleteFile, Packet, EndCapture
<1>2. /\ active' \in 0..MaxCaptures /\ ended' \in [Captures -> Fates]
      /\ seq' \in [Captures -> 0..MaxLines]
  <2>1. /\ active \in 0..MaxCaptures /\ ended \in [Captures -> Fates]
        /\ seq \in [Captures -> 0..MaxLines]
    BY DEF PanelTypes, PanelTypeOK
  <2>2. Ends \subseteq Fates /\ "deleted" \in Fates /\ "lost" \in Fates
    BY DEF Fates
  <2>3. active' \in 0..MaxCaptures
    BY <2>1, PanelAssumption DEF StartElsewhere, DeleteFile, Packet, EndCapture, Captures
  <2>4. ended' \in [Captures -> Fates]
    BY <2>1, <2>2 DEF StartElsewhere, DeleteFile, Packet, EndCapture
  <2>5. seq' \in [Captures -> 0..MaxLines]
    <3>1. CASE Packet
      <4>1. active \in Captures /\ seq[active] + 1 \in 0..MaxLines
        BY <2>1, <3>1, PanelAssumption DEF Packet, Captures
      <4>2. QED
        BY <2>1, <3>1, <4>1 DEF Packet
    <3>2. CASE UNCHANGED seq
      BY <2>1, <3>2
    <3>3. QED
      BY <3>1, <3>2 DEF StartElsewhere, DeleteFile, EndCapture
  <2>6. QED
    BY <2>3, <2>4, <2>5
<1>3. Lasts
  <2>1. /\ ended \in [Captures -> Fates] /\ active \in 0..MaxCaptures
        /\ active # 0 => active \in Captures /\ ended[active] = "none"
    BY PanelAssumption DEF PanelTypes, PanelTypeOK, Captures, Fates, ListInv
  <2>2. ASSUME NEW c \in Captures, StartElsewhere(c) PROVE Lasts
    <3>1. active = 0 /\ active' = c /\ UNCHANGED ended /\ ended[c] = "none"
      BY <2>2 DEF StartElsewhere, Fresh
    <3>2. QED
      BY <3>1, <2>1, PanelAssumption DEF Started, Ends, Lasts, Captures
  <2>3. ASSUME NEW c \in Captures, DeleteFile(c) PROVE Lasts
    BY <2>1, <2>3 DEF DeleteFile, Started, Ends, Lasts
  <2>4. CASE Packet
    BY <2>1, <2>4 DEF Packet, Started, Ends, Lasts
  <2>5. ASSUME NEW how \in Ends \union {"lost"}, EndCapture(how) PROVE Lasts
    BY <2>1, <2>5 DEF EndCapture, Started, Ends, Lasts
  <2>6. QED
    BY <2>2, <2>3, <2>4, <2>5
<1>5. PanelTypes'
  BY <1>1, <1>2 DEF queries, preview, refs, history, PanelTypes, PanelTypeOK, Fates
<1>6. Known \subseteq Captures /\ Known' = Known
  BY <1>1 DEF Known, PanelTypes, PanelTypeOK, Captures, queries, preview
<1>7. \A c \in Captures : ended[c] # "none" => ended'[c] # "none"
  BY <1>3 DEF Lasts, PanelTypes, PanelTypeOK, Fates, Ends
<1>8. ListInv'
  BY <1>1, <1>3, <1>6, <1>7, FetchTypes DEF Lasts, ListInv, queries, Captures, Made
<1>9. FilesInv'
  BY <1>1, <1>3, <1>6 DEF Lasts, FilesInv, queries, Ends
<1>10. SaidAsEnded'
  BY <1>1, <1>3 DEF Lasts, SaidAsEnded, history, PanelTypes, PanelTypeOK
<1>11. HiddenInv' /\ PreviewWhole'
  BY <1>1 DEF HiddenInv, PreviewWhole, queries, preview, refs, history
<1>12. StatusInv'
  BY <1>1, <1>7 DEF StatusInv, queries, preview, refs, history, after
<1>13. QED
  BY <1>5, <1>8, <1>9, <1>10, <1>11, <1>12

(* A poll is made or answered by the server, or fails.                      *)
LEMMA PollStep ==
  ASSUME PanelInv, AskList \/ ServeList \/ PollFails \/ AskStatus \/ ServeStatus
  PROVE  PanelInv'
<1> USE DEF PanelInv
<1>1. UNCHANGED <<serverState, shown, list, statusOf, preview, starting, history>>
  BY DEF AskList, ServeList, PollFails, AskStatus, ServeStatus
<1>2. Known \subseteq Captures /\ Known' = Known
  BY <1>1 DEF Known, PanelTypes, PanelTypeOK, Captures, preview
<1>3. /\ ended \in [Captures -> Fates] /\ active \in 0..MaxCaptures /\ list \in 0..MaxCaptures
      /\ active # 0 => ended[active] = "none"
  BY DEF PanelTypes, PanelTypeOK, Fates, ListInv
<1>4. \/ listFetch' = listFetch
      \/ listFetch' = NoStatus
      \/ shown /\ listFetch' = Asked
      \/ /\ listFetch' \in HalfLists /\ listFetch'.running = active /\ shown
      \/ /\ listFetch.at = "half" /\ listFetch' \in WholeLists /\ shown
         /\ listFetch'.running = listFetch.running /\ listFetch'.files = ended
  <2>1. CASE ServeList
    <3>1. shown
      BY <2>1 DEF ServeList, HiddenInv, NoStatus
    <3>2. CASE listFetch.at = "asked"
      BY <3>1, <3>2, <2>1, <1>3 DEF ServeList, ListStep, HalfLists
    <3>3. CASE listFetch.at = "half"
      BY <3>1, <3>3, <2>1, <1>3, FetchTypes DEF ServeList, ListStep, WholeLists
    <3>4. QED
      BY <3>2, <3>3, <2>1 DEF ServeList
  <2>2. CASE AskList \/ PollFails \/ AskStatus \/ ServeStatus
    BY <2>2 DEF AskList, PollFails, AskStatus, ServeStatus, Asked
  <2>3. QED
    BY <2>1, <2>2
<1>5. \/ statusFetch' = statusFetch
      \/ statusFetch' = NoStatus
      \/ /\ shown /\ list # 0 /\ statusFetch' = [at |-> "asked", after |-> after(list)]
      \/ /\ shown /\ list # 0 /\ statusFetch.at = "asked" /\ statusFetch' \in Statuses
         /\ statusFetch'.lines = RingOf(statusFetch.after, statusFetch'.seq)
  <2>1. CASE ServeStatus
    <3>1. shown /\ list # 0
      BY <2>1 DEF ServeStatus, HiddenInv, StatusInv, NoStatus
    <3>2. CASE active = list
      <4>1. active \in Captures /\ seq[active] \in 0..MaxLines
        BY <3>1, <3>2, <1>3 DEF PanelTypes, PanelTypeOK, Captures
      <4>2. statusFetch.after \in 0..MaxLines
        BY <2>1, FetchTypes DEF ServeStatus
      <4>3. /\ Ring(active, statusFetch.after) = RingOf(statusFetch.after, seq[active])
            /\ RingOf(statusFetch.after, seq[active]) \subseteq 1..MaxLines
        BY <4>1, <4>2, PanelAssumption DEF Ring, RingOf
      <4>4. QED
        BY <2>1, <3>1, <3>2, <4>1, <4>3 DEF ServeStatus, Statuses
    <3>3. QED
      BY <3>2, <2>1 DEF ServeStatus
  <2>2. CASE AskList \/ PollFails \/ AskStatus \/ ServeList
    BY <2>2 DEF AskList, PollFails, AskStatus, ServeList
  <2>3. QED
    BY <2>1, <2>2
<1>6. after(list) \in 0..MaxLines /\ after(list)' = after(list)
  BY <1>1, PanelAssumption DEF after, preview, refs, PanelTypes, PanelTypeOK
<1>7. listFetch' \in ListFetches /\ statusFetch' \in StatusFetches
  BY <1>4, <1>5, <1>6, <1>3
     DEF ListFetches, StatusFetches, Asked, HalfLists, WholeLists, AskedStatuses, PanelTypes,
         PanelTypeOK
<1>8. PanelTypes'
  <2>1. /\ listFetch'.at \in {"none", "asked", "half", "answered"}
        /\ statusFetch'.at \in {"none", "asked", "answered"}
    BY <1>7 DEF ListFetches, StatusFetches, NoStatus, Asked, HalfLists, WholeLists, AskedStatuses,
                Statuses
  <2>2. QED
    BY <2>1, <1>1, <1>7 DEF PanelTypes, PanelTypeOK, serverState, preview, refs, history
<1>9. ListInv' /\ FilesInv'
  <2>1. UNCHANGED <<active, ended>>
    BY <1>1 DEF serverState
  <2>2. \A c : Started(c)' = Started(c)
    BY <2>1 DEF Started
  <2>3. CASE listFetch' = listFetch
    BY <2>1, <2>2, <2>3, <1>2 DEF ListInv, FilesInv
  <2>4. CASE listFetch' \in {NoStatus, Asked}
    <3>1. listFetch'.at \notin Made
      BY <2>4 DEF NoStatus, Asked, Made
    <3>2. QED
      BY <3>1, <2>1, <2>2, <1>2 DEF ListInv, FilesInv, Made
  <2>5. CASE listFetch' \in HalfLists /\ listFetch'.running = active
    <3>1. listFetch'.at = "half"
      BY <2>5 DEF HalfLists
    <3>2. \A c \in Known : c # active => ended[c] # "none"
      BY DEF ListInv, Started
    <3>3. QED
      BY <3>1, <3>2, <2>1, <2>2, <2>5, <1>2 DEF ListInv, FilesInv, Started
  <2>6. CASE /\ listFetch.at = "half" /\ listFetch' \in WholeLists
             /\ listFetch'.running = listFetch.running /\ listFetch'.files = ended
    <3>1. listFetch'.at = "answered" /\ listFetch.at \in Made
      BY <2>6 DEF WholeLists, Made
    <3>2. ListInv'
      BY <3>1, <2>1, <2>2, <2>6, <1>2 DEF ListInv
    <3>3. FilesInv'
      BY <3>1, <2>1, <2>6, <1>2 DEF ListInv, FilesInv
    <3>4. QED
      BY <3>2, <3>3
  <2>7. QED
    BY <1>4, <2>3, <2>4, <2>5, <2>6
<1>10. HiddenInv'
  BY <1>1, <1>4, <1>5 DEF HiddenInv, preview, refs
<1>11. SaidAsEnded' /\ PreviewWhole'
  BY <1>1 DEF SaidAsEnded, PreviewWhole, serverState, preview, refs, history
<1>12. StatusInv'
  <2>1. \A c \in Captures : statusOf[c].at = "answered" /\ c # list =>
           ended[c] # "none" /\ (listFetch'.at \in Made => listFetch'.running # c)
    <3>1. SUFFICES ASSUME NEW c \in Captures, statusOf[c].at = "answered", c # list,
                          listFetch'.at \in Made
                   PROVE  listFetch'.running # c
      BY DEF StatusInv
    <3>2. ended[c] # "none" /\ (listFetch.at \in Made => listFetch.running # c)
      BY <3>1 DEF StatusInv
    <3>3. c # active
      BY <3>2, <1>3 DEF Captures
    <3>4. listFetch' \notin {NoStatus, Asked}
      BY <3>1 DEF NoStatus, Asked, Made
    <3>5. QED
      BY <3>1, <3>2, <3>3, <3>4, <1>4 DEF Made
  <2>2. statusFetch'.at # "none" => list # 0
    BY <1>5 DEF StatusInv, NoStatus
  <2>3. ~holed /\ statusFetch'.at = "asked" => statusFetch'.after = after(list)
    BY <1>5 DEF StatusInv, NoStatus, Statuses
  <2>4. ~holed /\ statusFetch'.at = "answered" =>
          statusFetch'.lines = RingOf(after(list), statusFetch'.seq)
    BY <1>5 DEF StatusInv, NoStatus
  <2>5. QED
    BY <2>1, <2>2, <2>3, <2>4, <1>1, <1>6
       DEF StatusInv, serverState, preview, refs, history
<1>13. QED
  BY <1>8, <1>9, <1>10, <1>11, <1>12

(* What the effect on a status leaves in the refs and in the preview.       *)
LEMMA ConsumeTypes ==
  ASSUME PanelTypes, NEW c \in Captures, NEW st \in Statuses, ConsumeStatus(c, st)
  PROVE  /\ cursorRef' \in 0..MaxLines /\ consumedSeqRef' \in 0..MaxLines
         /\ cursorRef' <= consumedSeqRef'
         /\ cursorSessionRef' = c
         /\ lines' \subseteq Captures \X (1..MaxLines)
<1>1. st.seq \in 0..MaxLines /\ st.lines \subseteq 1..MaxLines
  BY DEF Statuses
<1>3. /\ consumedSeqRef \in 0..MaxLines /\ lines \subseteq Captures \X (1..MaxLines)
  BY DEF PanelTypes, PanelTypeOK
<1>2. \A S \in {st.lines, {l[2] : l \in lines} \union st.lines} :
        {c} \X Latest(S) \subseteq Captures \X (1..MaxLines)
  <2>1. {l[2] : l \in lines} \subseteq 1..MaxLines
    BY <1>3
  <2>2. \A S : Latest(S) \subseteq S
    BY DEF Latest
  <2>3. QED
    BY <1>1, <2>1, <2>2
<1>4. /\ cursorRef' = st.seq /\ consumedSeqRef' \in {st.seq, consumedSeqRef}
      /\ st.seq <= consumedSeqRef' /\ cursorSessionRef' = c
  BY <1>1, <1>3, PanelAssumption DEF ConsumeStatus
<1>5. \/ lines' = {c} \X Latest(st.lines)
      \/ lines' = lines
      \/ lines' = {c} \X Latest({l[2] : l \in lines} \union st.lines)
  BY DEF ConsumeStatus
<1>6. lines' \subseteq Captures \X (1..MaxLines)
  BY <1>2, <1>3, <1>5
<1>7. QED
  BY <1>1, <1>3, <1>4, <1>6

\* The latest of some lines up to the m-th are the last ones shown, if those are there.
LEMMA LatestOf ==
  ASSUME NEW m \in Nat, NEW S, S \subseteq 1..m, LastShown(m) \subseteq S
  PROVE  Latest(S) = LastShown(m)
<1>1. SUFFICES ASSUME NEW n \in S PROVE n \in Latest(S) <=> n \in LastShown(m)
  BY DEF Latest
<1> DEFINE later == {k \in S : k > n}
<1>2. n \in 1..m /\ ShownLines \in Nat
  BY PanelAssumption
<1>3. IsFiniteSet(later) /\ Cardinality(later) \in Nat
  <2>1. later \subseteq 1..m
    OBVIOUS
  <2>2. IsFiniteSet(1..m)
    <3>1. 1 \in Int /\ m \in Int
      OBVIOUS
    <3>2. QED
      BY ONLY <3>1, FS_Interval
  <2>3. QED
    BY <2>1, <2>2, FS_Subset, FS_CardinalityType
<1>4. CASE n + ShownLines > m
  <2>1. later \subseteq (n + 1)..m /\ IsFiniteSet((n + 1)..m) /\ Cardinality((n + 1)..m) = m - n
    <3>1. ASSUME NEW k \in later PROVE k \in (n + 1)..m
      <4>1. k \in 1..m /\ k > n
        OBVIOUS
      <4>2. QED
        BY <4>1, <1>2
    <3>2. /\ n + 1 \in Int /\ m \in Int /\ n <= m
          /\ (IF n + 1 > m THEN 0 ELSE m - (n + 1) + 1) = m - n
      BY <1>2
    <3>3. /\ IsFiniteSet((n + 1)..m)
          /\ Cardinality((n + 1)..m) = IF n + 1 > m THEN 0 ELSE m - (n + 1) + 1
      BY ONLY <3>2, FS_Interval
    <3>4. later \subseteq (n + 1)..m
      BY <3>1
    <3>5. Cardinality((n + 1)..m) = m - n
      BY ONLY <3>2, <3>3
    <3>6. QED
      BY <3>3, <3>4, <3>5
  <2>2. Cardinality(later) <= m - n
    BY <2>1, FS_Subset
  <2>3. QED
    BY <1>2, <1>3, <1>4, <2>2 DEF Latest, LastShown
<1>5. CASE ~(n + ShownLines > m)
  <2> DEFINE shownLast == (m - ShownLines + 1)..m
  <2>1. shownLast \subseteq later
    BY <1>2, <1>5 DEF LastShown
  <2>2. IsFiniteSet(shownLast) /\ Cardinality(shownLast) = ShownLines
    <3>1. m - ShownLines + 1 \in Int /\ m \in Int
      BY <1>2
    <3>2. /\ IsFiniteSet(shownLast)
          /\ Cardinality(shownLast) =
               IF m - ShownLines + 1 > m THEN 0 ELSE m - (m - ShownLines + 1) + 1
      BY <3>1, FS_Interval
    <3>3. QED
      BY <3>2, <1>2
  <2>3. ShownLines <= Cardinality(later)
    BY <2>1, <2>2, <1>3, FS_Subset
  <2>4. QED
    BY <1>2, <1>3, <1>5, <2>3 DEF Latest, LastShown
<1>6. QED
  BY <1>4, <1>5

\* A status that continues the cursor makes the preview whole up to its last line.
LEMMA ConsumeWhole ==
  ASSUME PanelTypes, NEW c \in Captures, NEW st \in Statuses, ConsumeStatus(c, st),
         cursorRef <= consumedSeqRef, st.lines = RingOf(after(c), st.seq),
         cursorSessionRef # 0 => lines = {cursorSessionRef} \X LastShown(consumedSeqRef)
  PROVE  lines' = {c} \X LastShown(consumedSeqRef')
<1>1. /\ st.seq \in Nat /\ consumedSeqRef \in Nat /\ cursorRef \in Nat /\ c # 0
      /\ ShownLines \in Nat /\ RingLines \in Nat /\ ShownLines <= RingLines
  BY PanelAssumption DEF Statuses, PanelTypes, PanelTypeOK, Captures
<1>2. CASE cursorSessionRef # c
  <2>1. st.lines \subseteq 1..st.seq /\ LastShown(st.seq) \subseteq st.lines
    BY <1>1, <1>2 DEF after, RingOf, LastShown
  <2>2. QED
    BY <1>1, <1>2, <2>1, LatestOf DEF ConsumeStatus
<1>3. CASE cursorSessionRef = c /\ st.seq > consumedSeqRef
  <2> DEFINE all == {l[2] : l \in lines} \union st.lines
  <2>1. st.lines = RingOf(cursorRef, st.seq) /\ lines = {c} \X LastShown(consumedSeqRef)
    BY <1>1, <1>3 DEF after
  <2>2. {l[2] : l \in lines} = LastShown(consumedSeqRef)
    <3>1. \A A : {l[2] : l \in {c} \X A} = A
      <4>1. SUFFICES ASSUME NEW A, NEW n PROVE n \in {l[2] : l \in {c} \X A} <=> n \in A
        OBVIOUS
      <4>2. n \in A => <<c, n>> \in {c} \X A /\ <<c, n>>[2] = n
        OBVIOUS
      <4>3. \A l \in {c} \X A : l[2] \in A
        OBVIOUS
      <4>4. QED
        BY <4>2, <4>3
    <3>2. QED
      BY <2>1, <3>1
  <2>3. all \subseteq 1..st.seq
    BY <1>1, <1>3, <2>1, <2>2 DEF RingOf, LastShown
  <2>4. LastShown(st.seq) \subseteq all
    BY <1>1, <1>3, <2>1, <2>2 DEF RingOf, LastShown
  <2>5. lines' = {c} \X Latest(all) /\ consumedSeqRef' = st.seq
    BY <1>3 DEF ConsumeStatus
  <2> HIDE DEF all
  <2>6. Latest(all) = LastShown(st.seq)
    BY <1>1, <2>3, <2>4, LatestOf
  <2>7. QED
    BY <2>5, <2>6
<1>4. CASE cursorSessionRef = c /\ ~(st.seq > consumedSeqRef)
  BY <1>1, <1>4 DEF ConsumeStatus
<1>5. QED
  BY <1>2, <1>3, <1>4

(* A status arrives.                                                        *)
LEMMA PreviewStep == ASSUME PanelInv, PreviewAnswer PROVE PanelInv'
<1> USE DEF PanelInv
<1>1. /\ list \in Captures /\ statusFetch \in Statuses /\ statusFetch.at = "answered" /\ shown
      /\ ConsumeStatus(list, statusFetch)
      /\ statusOf' = [statusOf EXCEPT ![list] = statusFetch] /\ statusFetch' = NoStatus
      /\ UNCHANGED <<serverState, shown, list, listFetch, lastRunningNameRef, starting, history>>
  BY FetchTypes DEF PreviewAnswer, StatusInv, PanelTypes, PanelTypeOK, Captures, HiddenInv, NoStatus
<1>2. /\ cursorRef' \in 0..MaxLines /\ consumedSeqRef' \in 0..MaxLines
      /\ cursorRef' <= consumedSeqRef' /\ cursorSessionRef' = list
      /\ lines' \subseteq Captures \X (1..MaxLines)
  BY <1>1, ConsumeTypes
<1>3. statusOf' \in [Captures -> {NoStatus} \union Statuses]
  BY <1>1 DEF PanelTypes, PanelTypeOK
<1>4. statusFetch'.at = "none"
  BY <1>1 DEF NoStatus
<1>5. PanelTypes'
  BY <1>1, <1>2, <1>3, <1>4 DEF PanelTypes, PanelTypeOK, StatusFetches, Captures, serverState,
     history
<1>6. ListInv' /\ FilesInv' /\ SaidAsEnded' /\ HiddenInv'
  BY <1>1 DEF ListInv, FilesInv, SaidAsEnded, HiddenInv, Known, Started, serverState, history
<1>7. StatusInv'
  <2>1. \A c \in Captures : c # list => statusOf'[c] = statusOf[c]
    BY <1>1 DEF PanelTypes, PanelTypeOK
  <2>2. QED
    BY <2>1, <1>1, <1>2, <1>4 DEF StatusInv, serverState
<1>8. PreviewWhole'
  <2>1. SUFFICES ASSUME ~holed PROVE lines' = {list} \X LastShown(consumedSeqRef')
    BY <1>1, <1>2 DEF PreviewWhole, history, LastShown
  <2>2. statusFetch.lines = RingOf(after(list), statusFetch.seq) /\ cursorRef <= consumedSeqRef
    BY <2>1, <1>1 DEF StatusInv
  <2>3. cursorSessionRef # 0 => lines = {cursorSessionRef} \X LastShown(consumedSeqRef)
    BY <2>1, <1>1 DEF PreviewWhole, LastShown
  <2>4. QED
    BY <2>2, <2>3, <1>1, ConsumeWhole
<1>9. QED
  BY <1>5, <1>6, <1>7, <1>8

(* The list arrives: the panel turns to the capture that runs, or announces *)
(* that the one it knew has ended.                                          *)
LEMMA ListStepInv == ASSUME PanelInv, ListAnswer PROVE PanelInv'
<1> USE DEF PanelInv
<1> DEFINE r == listFetch.running
           l == lastRunningNameRef
<1>1. /\ listFetch.at = "answered" /\ r \in 0..MaxCaptures
      /\ listFetch.files \in [Captures -> Fates] /\ shown
      /\ listFetch.at \in Made
  BY FetchTypes DEF ListAnswer, HiddenInv, NoStatus, Made
<1>2. /\ ended \in [Captures -> Fates] /\ list \in 0..MaxCaptures /\ l \in 0..MaxCaptures
      /\ said \in [Captures -> {"none"} \union Ends]
  BY DEF PanelTypes, PanelTypeOK, Fates
<1>3. /\ list' = r
      /\ statusFetch' = (IF r # list THEN NoStatus ELSE statusFetch)
      /\ UNCHANGED <<serverState, shown, statusOf, starting, holed>>
  BY DEF ListAnswer, ShowList
<1>4. \/ /\ r # 0 /\ lastRunningNameRef' = r /\ listFetch' = NoStatus
         /\ UNCHANGED <<refs, lines, said>>
      \/ /\ r = 0 /\ l = 0 /\ listFetch' = NoStatus
         /\ UNCHANGED <<lastRunningNameRef, refs, lines, said>>
      \/ /\ r = 0 /\ l # 0 /\ lastRunningNameRef' = 0 /\ listFetch' = Asked
         /\ cursorSessionRef' = 0 /\ cursorRef' = 0 /\ consumedSeqRef' = 0
         /\ UNCHANGED lines
         /\ said' = [said EXCEPT ![l] = IF listFetch.files[l] \in Ends
                                        THEN listFetch.files[l] ELSE "stopped"]
  <2>1. CASE r # 0
    <3>1. ~(r # list /\ statusOf[r].at = "answered")
      <4>1. r \in Captures
        BY <2>1, <1>1 DEF Captures
      <4>2. QED
        BY <4>1, <1>1 DEF StatusInv
    <3>2. QED
      BY <2>1, <3>1 DEF ListAnswer, ShowList
  <2>2. CASE r = 0
    BY <2>2, Zenon DEF ListAnswer, ShowList, Asked
  <2>3. QED
    BY <2>1, <2>2
<1> HIDE DEF r, l
<1>5. listFetch' \in {NoStatus, Asked} /\ listFetch'.at \notin Made /\ listFetch'.at # "answered"
      /\ listFetch'.at \in {"none", "asked"}
  BY <1>4 DEF NoStatus, Asked, Made
<1>6. statusFetch' \in {NoStatus, statusFetch} /\ (statusFetch'.at # "none" => r = list)
  BY <1>3 DEF NoStatus
<1>7. /\ cursorRef' \in 0..MaxLines /\ consumedSeqRef' \in 0..MaxLines
      /\ cursorRef' <= consumedSeqRef'
      /\ cursorSessionRef' \in 0..MaxCaptures /\ lastRunningNameRef' \in {0, r}
      /\ UNCHANGED lines
  BY <1>1, <1>4, PanelAssumption DEF refs, PanelTypes, PanelTypeOK, StatusInv, l
<1>8. said' \in [Captures -> {"none"} \union Ends] /\ SaidAsEnded'
  <2>1. CASE UNCHANGED said
    BY <2>1, <1>2, <1>3 DEF SaidAsEnded, serverState
  <2>2. CASE /\ r = 0 /\ l # 0
             /\ said' = [said EXCEPT ![l] = IF listFetch.files[l] \in Ends
                                            THEN listFetch.files[l] ELSE "stopped"]
    <3>1. l \in Captures /\ l \in Known /\ l # r
      BY <2>2, <1>2 DEF Captures, Known, l
    <3>2. /\ ended[l] # "none" /\ listFetch.files[l] # "none"
          /\ listFetch.files[l] \in Ends => ended[l] \in {listFetch.files[l], "deleted"}
          /\ listFetch.files[l] \in {"lost", "deleted"} => ended[l] = listFetch.files[l]
      BY <3>1, <1>1 DEF ListInv, FilesInv, r
    <3>3. /\ listFetch.files[l] \in Fates /\ ended[l] \in Fates
      BY <3>1, <1>1, <1>2
    <3>4. /\ said'[l] \in Ends
          /\ \/ ended[l] \in {said'[l], "deleted"}
             \/ ended[l] = "lost" /\ said'[l] = "stopped"
      <4>1. said'[l] = IF listFetch.files[l] \in Ends THEN listFetch.files[l] ELSE "stopped"
        BY <2>2, <3>1, <1>2
      <4>2. CASE listFetch.files[l] \in Ends
        <5>1. said'[l] = listFetch.files[l]
          BY <4>1, <4>2
        <5>2. QED
          BY <5>1, <4>2, <3>2
      <4>3. CASE listFetch.files[l] \notin Ends
        <5>1. listFetch.files[l] \in {"lost", "deleted"}
          BY <4>3, <3>2, <3>3 DEF Fates
        <5>2. QED
          BY <4>1, <4>3, <5>1, <3>2 DEF Ends
      <4>4. QED
        BY <4>2, <4>3
    <3>5. \A c \in Captures : c # l => said'[c] = said[c]
      BY <2>2, <1>2
    <3>6. said' \in [Captures -> {"none"} \union Ends]
      BY <2>2, <1>2, <3>4 DEF Ends
    <3>7. SaidAsEnded'
      BY <3>4, <3>5, <1>3 DEF SaidAsEnded, serverState
    <3>8. QED
      BY <3>6, <3>7
  <2>3. QED
    BY <1>4, <2>1, <2>2
<1>9. PanelTypes'
  <2>1. statusFetch' \in StatusFetches /\ statusFetch'.at \in {"none", "asked", "answered"}
    BY <1>6, FetchTypes DEF PanelTypes, PanelTypeOK, StatusFetches, NoStatus
  <2>2. /\ list' \in 0..MaxCaptures /\ lastRunningNameRef' \in 0..MaxCaptures
    BY <1>1, <1>3, <1>7, PanelAssumption
  <2>3. PanelTypeOK'
    BY <2>1, <2>2, <1>3, <1>5, <1>7, <1>8
       DEF PanelTypes, PanelTypeOK, ListFetches, Asked, serverState
  <2>4. QED
    BY <2>1, <2>3, <1>3, <1>5 DEF PanelTypes, PanelTypeOK, ListFetches
<1>10. ListInv' /\ FilesInv' /\ HiddenInv'
  <2>1. \A c \in Known' : c = r /\ r # 0
    BY <1>3, <1>7 DEF Known
  <2>2. r # 0 => Started(r)
    BY <1>1 DEF ListInv, r
  <2>3. UNCHANGED <<active, ended>> /\ \A c : Started(c)' = Started(c)
    BY <1>3 DEF serverState, Started
  <2>4. QED
    BY <2>1, <2>2, <2>3, <1>1, <1>3, <1>5 DEF ListInv, FilesInv, HiddenInv
<1>11. PreviewWhole'
  BY <1>3, <1>4 DEF PreviewWhole, refs
<1>12. StatusInv'
  <2>1. \A c \in Captures : statusOf'[c].at = "answered" /\ c # list' => ended'[c] # "none"
    <3>1. SUFFICES ASSUME NEW c \in Captures, statusOf[c].at = "answered", c # r
                   PROVE  ended[c] # "none"
      BY <1>3 DEF serverState
    <3>2. CASE c = list
      <4>1. c \in Known
        BY <3>2 DEF Known, Captures
      <4>2. QED
        BY <4>1, <3>1, <1>1 DEF ListInv, r
    <3>3. CASE c # list
      BY <3>1, <3>3 DEF StatusInv
    <3>4. QED
      BY <3>2, <3>3
  <2>2. statusFetch'.at # "none" => list' # 0
    BY <1>3, <1>6 DEF StatusInv, NoStatus
  <2>3. statusFetch'.at # "none" => statusFetch' = statusFetch /\ list' = list /\ UNCHANGED refs
    BY <1>3, <1>4, <1>6 DEF StatusInv, NoStatus
  <2>4. ~holed' /\ statusFetch'.at = "asked" => statusFetch'.after = after(list)'
    BY <2>3, <1>3 DEF StatusInv, after, refs
  <2>5. ~holed' /\ statusFetch'.at = "answered" =>
          statusFetch'.lines = RingOf(after(list)', statusFetch'.seq)
    BY <2>3, <1>3 DEF StatusInv, after, refs
  <2>6. QED
    BY <2>1, <2>2, <2>4, <2>5, <1>5, <1>7 DEF StatusInv
<1>13. QED
  BY <1>8, <1>9, <1>10, <1>11, <1>12

(* A capture is started from the panel; the answer starts the preview over. *)
LEMMA StartStep ==
  ASSUME PanelInv,
         Start \/ StartRefused \/ StartAnswered \/ \E c \in Captures : StartServed(c)
  PROVE  PanelInv'
<1> USE DEF PanelInv
<1>1. CASE Start \/ StartRefused
  <2>1. /\ UNCHANGED <<serverState, shown, queries, preview, history>>
        /\ starting' \in {NoStart, [NoStart EXCEPT !.at = "asked"]}
        /\ ~shown => starting' = NoStart
    BY <1>1 DEF Start, StartRefused
  <2>2. starting' \in [at : {"no", "asked", "served"}, of : 0..MaxCaptures] /\ starting'.at # "served"
    BY <2>1, PanelAssumption DEF NoStart
  <2>3. PanelTypes'
    BY <2>1, <2>2 DEF PanelTypes, PanelTypeOK, serverState, queries, preview, refs, history
  <2>4. ListInv' /\ FilesInv' /\ StatusInv'
    BY <2>1 DEF ListInv, FilesInv, StatusInv, Known, Started, after, serverState, queries,
                preview, refs, history
  <2>5. HiddenInv' /\ SaidAsEnded' /\ PreviewWhole'
    BY <2>1 DEF HiddenInv, SaidAsEnded, PreviewWhole, serverState, queries, preview, refs, history
  <2>6. QED
    BY <2>3, <2>4, <2>5
<1>2. ASSUME NEW c \in Captures, StartServed(c) PROVE PanelInv'
  <2>1. /\ active = 0 /\ ended[c] = "none" /\ active' = c /\ UNCHANGED ended
        /\ starting.at = "asked" /\ starting' = [at |-> "served", of |-> c]
        /\ UNCHANGED <<seq, shown, queries, preview, history>>
    BY <1>2 DEF StartServed, Fresh
  <2>2. c \in 1..MaxCaptures /\ c # 0 /\ c \in 0..MaxCaptures
    BY PanelAssumption DEF Captures
  <2>3. PanelTypes'
    BY <2>1, <2>2 DEF PanelTypes, PanelTypeOK, queries, preview, refs, history
  <2>4. Known \subseteq Captures /\ Known' = Known
    BY <2>1 DEF Known, PanelTypes, PanelTypeOK, Captures, queries, preview
  <2>5. \A b \in Captures : Started(b) => Started(b)'
    BY <2>1, PanelAssumption DEF Started, Captures
  <2>6. ListInv' /\ FilesInv'
    BY <2>1, <2>2, <2>4, <2>5, FetchTypes DEF ListInv, FilesInv, queries, Captures, Made
  <2>7. HiddenInv'
    BY <2>1 DEF HiddenInv, NoStart
  <2>8. SaidAsEnded' /\ PreviewWhole' /\ StatusInv'
    BY <2>1 DEF SaidAsEnded, PreviewWhole, StatusInv, after, queries, preview, refs, history
  <2>9. QED
    BY <2>3, <2>6, <2>7, <2>8
<1>3. CASE StartAnswered
  <2>1. /\ starting.at = "served" /\ lines' = {} /\ starting' = NoStart /\ shown
        /\ cursorSessionRef' = starting.of /\ cursorRef' = 0 /\ consumedSeqRef' = 0
        /\ listFetch' = Asked /\ holed' = (holed \/ list # 0)
        /\ UNCHANGED <<serverState, shown, list, statusOf, statusFetch, lastRunningNameRef, said>>
    BY <1>3 DEF StartAnswered, HiddenInv, NoStart, Asked
  <2>2. /\ starting.of \in 1..MaxCaptures
        /\ starting' \in [at : {"no", "asked", "served"}, of : 0..MaxCaptures]
        /\ starting'.at # "served"
    BY <2>1, PanelAssumption DEF PanelTypes, PanelTypeOK, NoStart
  <2>3. listFetch'.at = "asked"
    BY <2>1 DEF Asked
  <2>4. PanelTypes'
    <3>1. 0 \in 0..MaxLines /\ starting.of \in 0..MaxCaptures
      BY <2>2, PanelAssumption
    <3>2. holed' \in BOOLEAN
      BY <2>1, Zenon
    <3>3. PanelTypeOK'
      BY <2>1, <2>2, <2>3, <3>1, <3>2 DEF PanelTypes, PanelTypeOK, ListFetches, Asked, serverState
    <3>4. QED
      BY <2>1, <2>2, <3>3 DEF PanelTypes, PanelTypeOK, ListFetches
  <2>5. ListInv' /\ FilesInv' /\ HiddenInv' /\ SaidAsEnded'
    BY <2>1, <2>3 DEF ListInv, FilesInv, HiddenInv, SaidAsEnded, Known, Started, Made, serverState
  <2>6. PreviewWhole'
    BY <2>1 DEF PreviewWhole
  <2>7. StatusInv'
    <3>1. statusFetch.at # "none" => holed'
      BY <2>1 DEF StatusInv
    <3>2. statusFetch'.at \in {"asked", "answered"} => holed'
      BY <3>1, <2>1
    <3>3. QED
      BY <2>1, <2>3, <3>2 DEF StatusInv, Made, serverState
  <2>8. QED
    BY <2>4, <2>5, <2>6, <2>7
<1>4. QED
  BY <1>1, <1>2, <1>3

(* The panel goes and comes back.                                           *)
LEMMA MountStep == ASSUME PanelInv, HidePanel \/ ShowPanel PROVE PanelInv'
<1> USE DEF PanelInv
<1>1. CASE HidePanel
  <2>1. /\ shown' = FALSE /\ listFetch' = NoStatus /\ statusFetch' = NoStatus
        /\ cursorRef' = 0 /\ cursorSessionRef' = 0 /\ consumedSeqRef' = 0
        /\ lastRunningNameRef' = 0 /\ lines' = {} /\ starting' = NoStart
        /\ UNCHANGED <<serverState, list, statusOf, history>>
    BY <1>1, Zenon DEF HidePanel
  <2>2. /\ listFetch'.at = "none" /\ statusFetch'.at = "none" /\ starting'.at = "no"
        /\ starting' \in [at : {"no", "asked", "served"}, of : 0..MaxCaptures]
    BY <2>1, PanelAssumption DEF NoStatus, NoStart
  <2>3. PanelTypes'
    <3>1. 0 \in 0..MaxLines /\ 0 \in 0..MaxCaptures
      BY PanelAssumption
    <3>2. shown' \in BOOLEAN
      BY <2>1, Zenon
    <3>3. QED
      BY <2>1, <2>2, <3>1, <3>2
         DEF PanelTypes, PanelTypeOK, ListFetches, StatusFetches, serverState, history
  <2>4. ListInv' /\ FilesInv' /\ HiddenInv' /\ SaidAsEnded' /\ PreviewWhole'
    BY <2>1, <2>2 DEF ListInv, FilesInv, HiddenInv, SaidAsEnded, PreviewWhole, Known, Started,
                      Made, serverState, history
  <2>5. StatusInv'
    BY <2>1, <2>2 DEF StatusInv, Made, serverState, history
  <2>6. QED
    BY <2>3, <2>4, <2>5
<1>2. CASE ShowPanel
  <2>1. /\ ~shown /\ shown' = TRUE /\ listFetch = NoStatus /\ statusFetch = NoStatus
        /\ cursorSessionRef = 0
        /\ UNCHANGED <<serverState, listFetch, statusFetch, starting, said>>
    BY <1>2, Zenon DEF ShowPanel, HiddenInv
  <2>2. listFetch.at = "none" /\ statusFetch.at = "none"
    BY <2>1 DEF NoStatus
  <2>3. CASE list' = 0 /\ statusOf' = [c \in Captures |-> NoStatus] /\ UNCHANGED <<preview, holed>>
    <3>1. PanelTypes'
      <4>1. 0 \in 0..MaxCaptures /\ statusOf' \in [Captures -> {NoStatus} \union Statuses]
        BY <2>3, PanelAssumption
      <4>2. shown' \in BOOLEAN
        BY <2>1, Zenon
      <4>3. QED
        BY <2>1, <2>3, <4>1, <4>2 DEF PanelTypes, PanelTypeOK, serverState, preview, refs
    <3>2. Known' \subseteq Known
      BY <2>3 DEF Known, preview
    <3>3. ListInv' /\ FilesInv' /\ HiddenInv' /\ SaidAsEnded'
      BY <2>1, <2>2, <3>2 DEF ListInv, FilesInv, HiddenInv, SaidAsEnded, Started, Made, serverState
    <3>4. \A c \in Captures : statusOf'[c].at = "none"
      BY <2>3 DEF NoStatus
    <3>5. StatusInv' /\ PreviewWhole'
      BY <2>1, <2>2, <2>3, <3>4 DEF StatusInv, PreviewWhole, preview, refs
    <3>6. QED
      BY <3>1, <3>3, <3>5
  <2>4. CASE /\ lastRunningNameRef' = list
             /\ IF list # 0 /\ statusOf[list].at = "answered"
                THEN ConsumeStatus(list, statusOf[list]) /\ holed' = TRUE
                ELSE UNCHANGED <<refs, lines, holed>>
             /\ UNCHANGED <<list, statusOf>>
    <3>1. /\ cursorRef' \in 0..MaxLines /\ consumedSeqRef' \in 0..MaxLines
          /\ cursorRef' <= consumedSeqRef' /\ cursorSessionRef' \in 0..MaxCaptures
          /\ lines' \subseteq Captures \X (1..MaxLines) /\ holed' \in BOOLEAN
          /\ cursorSessionRef' # 0 => holed'
      <4>1. CASE list # 0 /\ statusOf[list].at = "answered"
        <5>1. list \in Captures /\ statusOf[list] \in Statuses
          BY <4>1 DEF PanelTypes, PanelTypeOK, Captures, NoStatus
        <5>2. ConsumeStatus(list, statusOf[list]) /\ holed' = TRUE
          BY <2>4, <4>1
        <5>3. holed' \in BOOLEAN /\ holed'
          BY <5>2, Zenon
        <5>4. /\ cursorRef' \in 0..MaxLines /\ consumedSeqRef' \in 0..MaxLines
              /\ cursorRef' <= consumedSeqRef' /\ cursorSessionRef' = list
              /\ lines' \subseteq Captures \X (1..MaxLines)
          BY <5>1, <5>2, ConsumeTypes
        <5>5. QED
          BY <5>1, <5>3, <5>4, PanelAssumption DEF Captures
      <4>2. CASE ~(list # 0 /\ statusOf[list].at = "answered")
        BY <2>1, <2>4, <4>2 DEF PanelTypes, PanelTypeOK, refs, StatusInv
      <4>3. QED
        BY <4>1, <4>2
    <3>2. PanelTypes'
      <4>1. shown' \in BOOLEAN
        BY <2>1, Zenon
      <4>2. QED
        BY <2>1, <2>4, <3>1, <4>1 DEF PanelTypes, PanelTypeOK, serverState
    <3>3. Known' \subseteq Known
      BY <2>4 DEF Known
    <3>4. ListInv' /\ FilesInv' /\ HiddenInv' /\ SaidAsEnded'
      BY <2>1, <2>2, <3>3 DEF ListInv, FilesInv, HiddenInv, SaidAsEnded, Started, Made, serverState
    <3>5. StatusInv' /\ PreviewWhole'
      BY <2>1, <2>2, <2>4, <3>1 DEF StatusInv, PreviewWhole, Made, serverState
    <3>6. QED
      BY <3>2, <3>4, <3>5
  <2>5. QED
    BY <1>2, <2>3, <2>4 DEF ShowPanel
<1>3. QED
  BY <1>1, <1>2

\* The invariant of the panel holds throughout, for any captures and lines.
THEOREM PanelInvariant == PanelSpec => []PanelInv
<1>1. PanelInv /\ [PanelNext]_panelVars => PanelInv'
  <2> SUFFICES ASSUME PanelInv, [PanelNext]_panelVars PROVE PanelInv'
    OBVIOUS
  <2>1. CASE (\E c \in Captures : StartElsewhere(c) \/ DeleteFile(c)) \/ Packet
               \/ (\E how \in Ends \union {"lost"} : EndCapture(how))
    BY <2>1, CaptureStep
  <2>2. CASE AskList \/ ServeList \/ PollFails \/ AskStatus \/ ServeStatus
    BY <2>2, PollStep
  <2>3. CASE PreviewAnswer
    BY <2>3, PreviewStep
  <2>4. CASE ListAnswer
    BY <2>4, ListStepInv
  <2>5. CASE Start \/ StartRefused \/ StartAnswered \/ \E c \in Captures : StartServed(c)
    BY <2>5, StartStep
  <2>6. CASE HidePanel \/ ShowPanel
    BY <2>6, MountStep
  <2>7. CASE UNCHANGED panelVars
    BY <2>7 DEF panelVars, serverState, queries, preview, refs, history, PanelInv, PanelTypes,
                PanelTypeOK, ListInv, FilesInv, HiddenInv, StatusInv, SaidAsEnded, PreviewWhole,
                Known, Started, after
  <2>8. QED
    BY <2>1, <2>2, <2>3, <2>4, <2>5, <2>6, <2>7 DEF PanelNext
<1>2. QED
  BY <1>1, PanelInitInv, PTL DEF PanelSpec

\* The preview has the last lines of the capture it shows up to the last one consumed, as
\* many as it keeps, and no other line, unless a hole is known.
THEOREM PreviewWholeHolds == PanelSpec => []PreviewWhole
  BY PanelInvariant, PTL DEF PanelInv

\* What the panel says of a capture's end is how it ended, or the capture has been
\* deleted since, or it left no sidecar and a stop is what is said.
THEOREM SaidAsEndedHolds == PanelSpec => []SaidAsEnded
  BY PanelInvariant, PTL DEF PanelInv
=============================================================================
