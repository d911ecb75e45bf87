---------------------------- MODULE ViewTerminal ----------------------------
(***************************************************************************)
(* A terminal over a WebSocket that lives in a React effect                 *)
(* (usePodExecTerminal.ts; the Redis, cloud host and vCenter terminals have *)
(* the same shape): a change of what the effect depends on tears the old    *)
(* session down and starts another, and the callbacks of the old one, which *)
(* may still come, find its run cancelled.                                  *)
(*                                                                         *)
(* What is typed and shown, sizes, toasts and messages are left out.        *)
(***************************************************************************)
EXTENDS Naturals

CONSTANT MaxRuns    \* bound for TLC: runs of the effect

ASSUME RunsAssumption == MaxRuns \in Nat

Runs == 1..MaxRuns

VARIABLES
    current,    \* the effect's last run, 0 before the first one
    enabled,    \* has that run a target?
    cancelled,  \* the runs whose cleanup has run
    sess,       \* the socket of each run
    status,     \* what the view says of its terminal
    torn        \* history: the page has torn the session down and the effect has yet to run

viewVars == <<current, enabled, cancelled, sess, status, torn>>

ViewTypeOK ==
    /\ current \in 0..MaxRuns /\ enabled \in BOOLEAN /\ cancelled \subseteq Runs
    /\ sess \in [Runs -> {"none", "waiting", "connecting", "connected", "exec",
                          "failed", "closing", "gone"}]
    /\ status \in {"idle", "connecting", "open", "closed", "error"} /\ torn \in BOOLEAN

ViewInit ==
    /\ current = 0 /\ enabled = FALSE /\ cancelled = {}
    /\ sess = [r \in Runs |-> "none"]
    /\ status = "idle" /\ torn = FALSE

SocketUp == {"connecting", "connected", "exec", "failed"}

\* A cancelled run's callbacks say nothing.
Say(r, text) == status' = IF r \in cancelled THEN status ELSE text

\* Mutant: the poll for the terminal's place in the page is not cancelled.
TeardownKeepsWait ==
    [r \in Runs |-> IF sess[r] \in SocketUp THEN "closing" ELSE sess[r]]

\* teardown: cancels the wait for the terminal's place, silences and closes the socket.
teardown ==
    [r \in Runs |-> CASE sess[r] = "waiting" -> "gone"
                      [] sess[r] \in SocketUp -> "closing"
                      [] OTHER -> sess[r]]

Cleanup == cancelled' = cancelled \union (1..current)

\* The effect runs again: another target, other options, or none.
RunEffect ==
    /\ current < MaxRuns
    /\ Cleanup
    /\ current' = current + 1
    /\ enabled' \in BOOLEAN
    /\ sess' = [teardown EXCEPT ![current + 1] = IF enabled' THEN "waiting" ELSE "none"]
    /\ status' = IF enabled' THEN status ELSE "idle"
    /\ torn' = FALSE

\* The page calls the hook's teardown: the link back to the pod, also when it is opened
\* elsewhere and the page stays, and the sheet that closes.  What the view says stays.
TearDown ==
    /\ current > 0
    /\ sess' = teardown
    /\ torn' = TRUE
    /\ UNCHANGED <<current, enabled, cancelled, status>>

\* whenTerminalHostReady found the element: the socket is made.
HostReady(r) ==
    /\ sess[r] = "waiting"
    /\ sess' = [sess EXCEPT ![r] = IF r \in cancelled THEN "gone" ELSE "connecting"]
    /\ Say(r, "connecting")
    /\ UNCHANGED <<current, enabled, cancelled, torn>>

HostTimeout(r) ==
    /\ sess[r] = "waiting"
    /\ sess' = [sess EXCEPT ![r] = "gone"]
    /\ Say(r, "error")
    /\ UNCHANGED <<current, enabled, cancelled, torn>>

SocketOpens(r) ==
    /\ sess[r] = "connecting"
    /\ sess' = [sess EXCEPT ![r] = IF r \in cancelled THEN "closing" ELSE "connected"]
    /\ UNCHANGED <<current, enabled, cancelled, status, torn>>

\* The first message: output of the shell, or a text that says why there is none.
FirstMessage(r) ==
    /\ sess[r] = "connected" /\ r \notin cancelled
    /\ \/ sess' = [sess EXCEPT ![r] = "exec"] /\ Say(r, "open")
       \/ sess' = [sess EXCEPT ![r] = "failed"] /\ Say(r, "error")
    /\ UNCHANGED <<current, enabled, cancelled, torn>>

\* onerror and onclose: the session's own end.
SocketEnds(r) ==
    /\ sess[r] \in SocketUp
    /\ sess' = [sess EXCEPT ![r] = "gone"]
    /\ Say(r, IF sess[r] = "exec" THEN "closed" ELSE "error")
    /\ UNCHANGED <<current, enabled, cancelled, torn>>

CloseDone(r) ==
    /\ sess[r] = "closing"
    /\ sess' = [sess EXCEPT ![r] = "gone"]
    /\ UNCHANGED <<current, enabled, cancelled, status, torn>>

ViewNext ==
    \/ RunEffect \/ TearDown
    \/ \E r \in Runs : \/ HostReady(r) \/ HostTimeout(r) \/ SocketOpens(r)
                       \/ FirstMessage(r) \/ SocketEnds(r) \/ CloseDone(r)

ViewSpec == ViewInit /\ [][ViewNext]_viewVars

-----------------------------------------------------------------------------
(* Properties                                                               *)

\* A view holds at most the socket of the effect's last run, and none once the page has torn
\* it down; what it says is that session's state, and no late callback of an earlier one
\* shows through.  Until the place of a new terminal is found, and after the page's own
\* teardown until the effect runs again, the view still says what it said.
ViewIsCurrent ==
    /\ \A r \in Runs : sess[r] \in SocketUp \union {"waiting"} => r = current /\ enabled /\ ~torn
    /\ status = "open" /\ ~torn => current > 0 /\ sess[current] \in {"exec", "waiting"}
    /\ current > 0 => /\ sess[current] = "exec" => status = "open"
                      /\ sess[current] = "connecting" => status = "connecting"
=============================================================================
