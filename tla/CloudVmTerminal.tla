-------------------------- MODULE CloudVmTerminal --------------------------
(***************************************************************************)
(* The root shell of a cloud host in a sheet (CloudVmSshTerminalSheet.tsx). *)
(* It connects on a click: the checks before it are awaited, one flag in a  *)
(* ref cancels whatever is under way, opening the sheet again or connecting *)
(* again lowers the flag, and there is something to dispose of only once    *)
(* the shell is ready.                                                      *)
(*                                                                         *)
(* The checks and the captcha are a step that passes or not; what is typed  *)
(* and shown is left out.                                                   *)
(***************************************************************************)
EXTENDS Naturals

CONSTANT MaxAttempts    \* bound for TLC: clicks on connect

ASSUME AttemptsAssumption == MaxAttempts \in Nat

Attempts == 1..MaxAttempts

VARIABLES
    open,       \* is the sheet open?
    mounted,    \* is the page that holds the sheet mounted?
    connectCancelledRef, cancelWaitRef, disposeRef,     \* the refs, 0 for null
    attempt,    \* where each attempt is
    sheet,      \* what the sheet says of its terminal
    disturbed   \* history: attempts that met another one, a closed sheet or an unmount

sheetVars == <<open, mounted, connectCancelledRef, cancelWaitRef, disposeRef,
               attempt, sheet, disturbed>>

SheetTypeOK ==
    /\ open \in BOOLEAN /\ mounted \in BOOLEAN /\ connectCancelledRef \in BOOLEAN
    /\ cancelWaitRef \in 0..MaxAttempts /\ disposeRef \in 0..MaxAttempts
    /\ attempt \in [Attempts -> {"none", "checking", "waiting", "connecting", "mute",
                                 "authing", "ready", "closing", "gone"}]
    /\ sheet \in {"idle", "connecting", "open", "closed", "error"}
    /\ disturbed \subseteq Attempts

SheetInit ==
    /\ open = FALSE /\ mounted = TRUE
    /\ connectCancelledRef = TRUE /\ cancelWaitRef = 0 /\ disposeRef = 0
    /\ attempt = [a \in Attempts |-> "none"]
    /\ sheet = "idle" /\ disturbed = {}

Alive(a) == attempt[a] \notin {"none", "gone"}
OtherAttempts(a) == {b \in Attempts : b # a /\ Alive(b)}
Sheet(text) == sheet' = IF connectCancelledRef THEN sheet ELSE text
At(a, stage) == attempt' = [attempt EXCEPT ![a] = stage]

\* What cancelWaitRef and disposeRef still reach; a socket that is up is closed.
Released ==
    [a \in Attempts |->
       CASE a = cancelWaitRef /\ attempt[a] = "waiting" -> "gone"
         [] a = disposeRef /\ attempt[a] = "ready" -> "closing"
         [] OTHER -> attempt[a]]

\* Mutant: the sheet is closed without disposing of the terminal.
ReleaseWait ==
    /\ attempt' = [a \in Attempts |-> IF a = cancelWaitRef /\ attempt[a] = "waiting"
                                      THEN "gone" ELSE attempt[a]]
    /\ cancelWaitRef' = 0 /\ disposeRef' = 0

Release == attempt' = Released /\ cancelWaitRef' = 0 /\ disposeRef' = 0

OpenSheet ==
    /\ mounted /\ ~open
    /\ open' = TRUE /\ connectCancelledRef' = FALSE
    /\ UNCHANGED <<mounted, cancelWaitRef, disposeRef, attempt, sheet, disturbed>>

CloseSheet ==
    /\ mounted /\ open
    /\ open' = FALSE /\ connectCancelledRef' = TRUE
    /\ Release
    /\ sheet' = "idle"
    /\ disturbed' = disturbed \union {a \in Attempts : Alive(a) /\ attempt[a] # "ready"}
    /\ UNCHANGED mounted

\* The effects have no cleanup: the page goes, refs and sockets stay.
Unmount ==
    /\ mounted
    /\ mounted' = FALSE
    /\ disturbed' = disturbed \union {a \in Attempts : Alive(a)}
    /\ UNCHANGED <<open, connectCancelledRef, cancelWaitRef, disposeRef, attempt, sheet>>

\* handleConnect, up to its first await; the button is there unless a terminal is.
Connect(a) ==
    /\ mounted /\ open /\ sheet \notin {"connecting", "open"}
    /\ attempt[a] = "none" /\ \A b \in Attempts : b < a => attempt[b] # "none"
    /\ connectCancelledRef' = FALSE
    /\ attempt' = [Released EXCEPT ![a] = "checking"]
    /\ cancelWaitRef' = 0 /\ disposeRef' = 0
    /\ sheet' = "connecting"
    /\ disturbed' = IF OtherAttempts(a) = {} THEN disturbed
                    ELSE disturbed \union OtherAttempts(a) \union {a}
    /\ UNCHANGED <<open, mounted>>

\* The awaited checks, each followed by a look at the flag: readiness, captcha.
ChecksPass(a) ==
    /\ attempt[a] = "checking" /\ ~connectCancelledRef
    /\ At(a, "waiting") /\ cancelWaitRef' = a
    /\ UNCHANGED <<open, mounted, connectCancelledRef, disposeRef, sheet, disturbed>>

ChecksEnd(a) ==
    /\ attempt[a] = "checking"
    /\ At(a, "gone") /\ Sheet("error")
    /\ UNCHANGED <<open, mounted, connectCancelledRef, cancelWaitRef, disposeRef, disturbed>>

\* The terminal's place is there while the sheet is.
MakeSocket(a) ==
    /\ attempt[a] = "waiting" /\ mounted /\ open
    /\ At(a, IF connectCancelledRef THEN "gone" ELSE "connecting")
    /\ UNCHANGED <<open, mounted, connectCancelledRef, cancelWaitRef, disposeRef, sheet,
                   disturbed>>

WaitTimeout(a) ==
    /\ attempt[a] = "waiting"
    /\ At(a, "gone") /\ Sheet("error")
    /\ UNCHANGED <<open, mounted, connectCancelledRef, cancelWaitRef, disposeRef, disturbed>>

\* onopen sends the credentials; without them the server waits a minute and closes.
SheetSocketOpens(a) ==
    /\ attempt[a] = "connecting"
    /\ At(a, IF connectCancelledRef THEN "mute" ELSE "authing")
    /\ UNCHANGED <<open, mounted, connectCancelledRef, cancelWaitRef, disposeRef, sheet,
                   disturbed>>

\* ssh_ready: only now is there something to dispose of.
SshReady(a) ==
    /\ attempt[a] = "authing"
    /\ At(a, "ready")
    /\ Sheet("open")
    /\ disposeRef' = IF connectCancelledRef THEN disposeRef ELSE a
    /\ UNCHANGED <<open, mounted, connectCancelledRef, cancelWaitRef, disturbed>>

\* ssh_error: the sheet closes the socket.
SshError(a) ==
    /\ attempt[a] = "authing" /\ ~connectCancelledRef
    /\ At(a, "closing") /\ Sheet("error")
    /\ UNCHANGED <<open, mounted, connectCancelledRef, cancelWaitRef, disposeRef, disturbed>>

\* onclose, for whatever reason; onerror's status is overwritten by it.
SheetSocketEnds(a) ==
    /\ attempt[a] \in {"connecting", "mute", "authing", "ready", "closing"}
    /\ At(a, "gone") /\ Sheet("closed")
    /\ UNCHANGED <<open, mounted, connectCancelledRef, cancelWaitRef, disposeRef, disturbed>>

SheetNext ==
    \/ OpenSheet \/ CloseSheet \/ Unmount
    \/ \E a \in Attempts :
         \/ Connect(a) \/ ChecksPass(a) \/ ChecksEnd(a) \/ MakeSocket(a) \/ WaitTimeout(a)
         \/ SheetSocketOpens(a) \/ SshReady(a) \/ SshError(a) \/ SheetSocketEnds(a)

SheetSpec == SheetInit /\ [][SheetNext]_sheetVars

-----------------------------------------------------------------------------
(* Properties                                                               *)

\* A shell on the cloud host belongs to an open sheet that shows it and can dispose of
\* it, unless its attempt met another one, was not ready when the sheet closed, or the
\* page went away.
ShellIsHeld ==
    \A a \in Attempts : attempt[a] = "ready" /\ a \notin disturbed =>
        open /\ disposeRef = a /\ sheet = "open"
=============================================================================
