---------------------------- MODULE CapturePanel ----------------------------
(***************************************************************************)
(* The packet-capture panel of a virtual machine                            *)
(* (pages/vcenter/capture/VmCapturePanel.tsx).  It polls the list of        *)
(* captures and, while one runs, its status; each status brings the preview *)
(* lines after a cursor that the panel keeps in refs beside the lines.  The *)
(* list is how it learns that a capture has ended.                          *)
(*                                                                         *)
(* The server side is VmCapture's, reduced to what the two answers say: at  *)
(* most one capture runs, the sidecar is there before it is gone or cannot  *)
(* be written, and only the last lines are kept, as the panel keeps only    *)
(* the last.  The form, the interpreter and the viewer are left out.        *)
(***************************************************************************)
EXTENDS Naturals, FiniteSets

CONSTANTS
    MaxCaptures,    \* bound for TLC: captures
    MaxLines,       \* bound for TLC: preview lines of a capture
    RingLines,      \* how many lines of a capture the server keeps
    ShownLines      \* how many lines the panel keeps

ASSUME PanelAssumption ==
    /\ MaxCaptures \in Nat /\ MaxLines \in Nat
    /\ RingLines \in Nat /\ ShownLines \in Nat /\ ShownLines <= RingLines

Captures == 1..MaxCaptures      \* in the order in which they start

VARIABLES
    active,         \* the capture that runs, 0 for none
    ended,          \* how each capture ended, as its sidecar says if it could be written
    seq,            \* the preview lines each capture has
    shown,          \* is the panel on the page?
    list, listFetch,        \* the list's query: the capture that runs, 0 for none, and its request
    statusOf, statusFetch,  \* the status queries, one per capture, and the request
    cursorRef, cursorSessionRef, consumedSeqRef, lastRunningNameRef,
    lines,          \* the preview
    starting,       \* the panel's request to start a capture
    said,           \* history: what the panel said of each capture's end
    holed           \* history: the start's answer, or a mount, found a capture shown

serverState == <<active, ended, seq>>
refs == <<cursorRef, cursorSessionRef, consumedSeqRef>>
queries == <<list, listFetch, statusOf, statusFetch>>
preview == <<refs, lastRunningNameRef, lines>>
history == <<said, holed>>
panelVars == <<serverState, shown, queries, preview, starting, history>>

Ends == {"stopped", "error"}
NoStatus == [at |-> "none"]
NoStart == [at |-> "no", of |-> 0]

Fates == {"none", "lost", "deleted"} \union Ends
Statuses == [at : {"answered"}, seq : 0..MaxLines, lines : SUBSET (1..MaxLines)]
ListFetches ==
    {NoStatus, [at |-> "asked"]} \union [at : {"half"}, running : 0..MaxCaptures]
      \union [at : {"answered"}, running : 0..MaxCaptures, files : [Captures -> Fates]]
StatusFetches == {NoStatus} \union [at : {"asked"}, after : 0..MaxLines] \union Statuses

PanelTypeOK ==
    /\ active \in 0..MaxCaptures
    /\ ended \in [Captures -> Fates]
    /\ seq \in [Captures -> 0..MaxLines]
    /\ shown \in BOOLEAN
    /\ list \in 0..MaxCaptures /\ listFetch \in ListFetches
    /\ statusOf \in [Captures -> {NoStatus} \union Statuses] /\ statusFetch \in StatusFetches
    /\ cursorRef \in 0..MaxLines /\ consumedSeqRef \in 0..MaxLines
    /\ cursorSessionRef \in 0..MaxCaptures /\ lastRunningNameRef \in 0..MaxCaptures
    /\ lines \subseteq Captures \X (1..MaxLines)
    /\ starting \in [at : {"no", "asked", "served"}, of : 0..MaxCaptures]
    /\ said \in [Captures -> {"none"} \union Ends]
    /\ holed \in BOOLEAN

PanelInit ==
    /\ active = 0 /\ ended = [c \in Captures |-> "none"] /\ seq = [c \in Captures |-> 0]
    /\ shown = TRUE
    /\ list = 0 /\ listFetch = NoStatus
    /\ statusOf = [c \in Captures |-> NoStatus] /\ statusFetch = NoStatus
    /\ cursorRef = 0 /\ cursorSessionRef = 0 /\ consumedSeqRef = 0 /\ lastRunningNameRef = 0
    /\ lines = {} /\ starting = NoStart
    /\ said = [c \in Captures |-> "none"] /\ holed = FALSE

-----------------------------------------------------------------------------
(* Captures, started and ended by anybody                                   *)

Fresh(c) == c # active /\ ended[c] = "none" /\ \A b \in Captures : b < c => ended[b] # "none"

StartElsewhere(c) ==
    /\ active = 0 /\ Fresh(c)
    /\ active' = c
    /\ UNCHANGED <<ended, seq, shown, queries, preview, starting, history>>

Packet ==
    /\ active # 0 /\ seq[active] < MaxLines
    /\ seq' = [seq EXCEPT ![active] = @ + 1]
    /\ UNCHANGED <<active, ended, shown, queries, preview, starting, history>>

\* The session leaves the list when its sidecar is there (VmCapture's NoStatusGap); one
\* that cannot be written is not missed.
EndCapture(how) ==
    /\ active # 0
    /\ ended' = [ended EXCEPT ![active] = how]
    /\ active' = 0
    /\ UNCHANGED <<seq, shown, queries, preview, starting, history>>

DeleteFile(c) ==
    /\ ended[c] \in Ends
    /\ ended' = [ended EXCEPT ![c] = "deleted"]
    /\ UNCHANGED <<active, seq, shown, queries, preview, starting, history>>

-----------------------------------------------------------------------------
(* The effects                                                              *)

Latest(S) == {n \in S : Cardinality({m \in S : m > n}) < ShownLines}

\* The effect on the status: another capture's lines replace the preview, more of the
\* same are appended, and a cursor that did not move adds nothing.
ConsumeStatus(c, st) ==
    /\ cursorRef' = st.seq
    /\ IF cursorSessionRef # c
       THEN /\ cursorSessionRef' = c
            /\ consumedSeqRef' = st.seq
            /\ lines' = {c} \X Latest(st.lines)
       ELSE /\ consumedSeqRef' = IF st.seq > consumedSeqRef THEN st.seq ELSE consumedSeqRef
            /\ lines' = IF st.seq > consumedSeqRef
                        THEN {c} \X Latest({l[2] : l \in lines} \union st.lines) ELSE lines
            /\ UNCHANGED cursorSessionRef

\* The list's data are new.  The capture that is observed changes with them, whose status
\* the cache may have; a capture that ran and does not is announced and the cursor reset.
ShowList(data) ==
    /\ list' = data.running
    /\ IF data.running # list THEN statusFetch' = NoStatus ELSE UNCHANGED statusFetch
    /\ IF data.running # 0
       THEN /\ lastRunningNameRef' = data.running
            /\ IF data.running # list /\ statusOf[data.running].at = "answered"
               THEN ConsumeStatus(data.running, statusOf[data.running])
               ELSE UNCHANGED <<refs, lines>>
            /\ listFetch' = NoStatus
            /\ UNCHANGED said
       ELSE IF lastRunningNameRef = 0
       THEN /\ listFetch' = NoStatus
            /\ UNCHANGED <<lastRunningNameRef, refs, lines, said>>
       ELSE /\ said' = [said EXCEPT ![lastRunningNameRef] =
                          IF data.files[lastRunningNameRef] \in Ends
                          THEN data.files[lastRunningNameRef] ELSE "stopped"]
            /\ lastRunningNameRef' = 0
            /\ cursorSessionRef' = 0 /\ cursorRef' = 0 /\ consumedSeqRef' = 0
            /\ listFetch' = [at |-> "asked"]
            /\ UNCHANGED lines

-----------------------------------------------------------------------------
(* Polling                                                                  *)

AskList ==
    /\ shown /\ listFetch.at = "none"
    /\ listFetch' = [at |-> "asked"]
    /\ UNCHANGED <<serverState, shown, list, statusOf, statusFetch, preview, starting, history>>

\* Mutant: the directory is read before the sessions.
FilesFirst(f) ==
    IF f.at = "asked" THEN [at |-> "half", files |-> ended]
    ELSE [at |-> "answered", running |-> active, files |-> f.files]

\* vmCaptureManager.list: the sessions under the lock, then the directory.
ListStep(f) ==
    IF f.at = "asked" THEN [at |-> "half", running |-> active]
    ELSE [at |-> "answered", running |-> f.running, files |-> ended]

ServeList ==
    /\ listFetch.at \in {"asked", "half"}
    /\ listFetch' = ListStep(listFetch)
    /\ UNCHANGED <<serverState, shown, list, statusOf, statusFetch, preview, starting, history>>

ListAnswer ==
    /\ listFetch.at = "answered"
    /\ ShowList([running |-> listFetch.running, files |-> listFetch.files])
    /\ UNCHANGED <<serverState, shown, statusOf, starting, holed>>

PollFails ==
    \/ /\ listFetch.at # "none"
       /\ listFetch' = NoStatus
       /\ UNCHANGED <<serverState, shown, list, statusOf, statusFetch, preview, starting, history>>
    \/ /\ statusFetch.at # "none"
       /\ statusFetch' = NoStatus
       /\ UNCHANGED <<serverState, shown, list, listFetch, statusOf, preview, starting, history>>

\* Mutant: the cursor of whatever capture was shown last is sent.
CursorUnbound(c) == cursorRef

\* The cursor counts for the capture it was counted in.
after(c) == IF cursorSessionRef = c THEN cursorRef ELSE 0

AskStatus ==
    /\ shown /\ list # 0 /\ statusFetch.at = "none"
    /\ statusFetch' = [at |-> "asked", after |-> after(list)]
    /\ UNCHANGED <<serverState, shown, list, listFetch, statusOf, preview, starting, history>>

\* The lines that the session still has after a line.
Ring(c, n) == {k \in 1..seq[c] : k > n /\ k + RingLines > seq[c]}

\* A capture that does not run has no status.
ServeStatus ==
    /\ statusFetch.at = "asked"
    /\ statusFetch' = IF active = list
                      THEN [at |-> "answered", seq |-> seq[active],
                            lines |-> Ring(active, statusFetch.after)]
                      ELSE NoStatus
    /\ UNCHANGED <<serverState, shown, list, listFetch, statusOf, preview, starting, history>>

PreviewAnswer ==
    /\ statusFetch.at = "answered"
    /\ statusOf' = [statusOf EXCEPT ![list] = statusFetch]
    /\ ConsumeStatus(list, statusFetch)
    /\ statusFetch' = NoStatus
    /\ UNCHANGED <<serverState, shown, list, listFetch, lastRunningNameRef, starting, history>>

-----------------------------------------------------------------------------
(* Starting a capture, leaving the panel and coming back                    *)

Start ==
    /\ shown /\ list = 0 /\ starting = NoStart
    /\ starting' = [NoStart EXCEPT !.at = "asked"]
    /\ UNCHANGED <<serverState, shown, queries, preview, history>>

StartServed(c) ==
    /\ starting.at = "asked" /\ active = 0 /\ Fresh(c)
    /\ active' = c /\ starting' = [at |-> "served", of |-> c]
    /\ UNCHANGED <<ended, seq, shown, queries, preview, history>>

StartRefused ==
    /\ starting.at = "asked"
    /\ starting' = NoStart
    /\ UNCHANGED <<serverState, shown, queries, preview, history>>

\* startMut.onSuccess: the preview and the cursor start over.
StartAnswered ==
    /\ starting.at = "served"
    /\ lines' = {}
    /\ cursorSessionRef' = starting.of /\ cursorRef' = 0 /\ consumedSeqRef' = 0
    /\ listFetch' = [at |-> "asked"]
    /\ holed' = (holed \/ list # 0)
    /\ starting' = NoStart
    /\ UNCHANGED <<serverState, shown, list, statusOf, statusFetch, lastRunningNameRef, said>>

\* Another tab of the page: the refs and the preview go, the queries' data stay.  A
\* start that is under way goes on without the panel.
HidePanel ==
    /\ shown
    /\ shown' = FALSE
    /\ listFetch' = NoStatus /\ statusFetch' = NoStatus
    /\ cursorRef' = 0 /\ cursorSessionRef' = 0 /\ consumedSeqRef' = 0
    /\ lastRunningNameRef' = 0 /\ lines' = {} /\ starting' = NoStart
    /\ UNCHANGED <<serverState, list, statusOf, history>>

\* The data are shown as they were, unless they have been collected after five minutes.
ShowPanel ==
    /\ ~shown
    /\ shown' = TRUE
    /\ \/ /\ list' = 0 /\ statusOf' = [c \in Captures |-> NoStatus]
          /\ UNCHANGED <<preview, holed>>
       \/ /\ lastRunningNameRef' = list
          /\ IF list # 0 /\ statusOf[list].at = "answered"
             THEN ConsumeStatus(list, statusOf[list]) /\ holed' = TRUE
             ELSE UNCHANGED <<refs, lines, holed>>
          /\ UNCHANGED <<list, statusOf>>
    /\ UNCHANGED <<serverState, listFetch, statusFetch, starting, said>>

PanelNext ==
    \/ \E c \in Captures : StartElsewhere(c) \/ DeleteFile(c) \/ StartServed(c)
    \/ Packet \/ \E how \in Ends \union {"lost"} : EndCapture(how)
    \/ AskList \/ ServeList \/ ListAnswer
    \/ AskStatus \/ ServeStatus \/ PreviewAnswer \/ PollFails
    \/ Start \/ StartRefused \/ StartAnswered \/ HidePanel \/ ShowPanel

PanelSpec == PanelInit /\ [][PanelNext]_panelVars

-----------------------------------------------------------------------------
(* Properties                                                               *)

\* The preview has the last lines of the capture it shows up to the last one consumed, as
\* many as the panel keeps, and none of another capture's, unless the answer of the start
\* came after the list had shown a running capture or the panel was mounted on a status of
\* before.
PreviewWhole ==
    shown /\ cursorSessionRef # 0 /\ ~holed =>
        lines = {cursorSessionRef} \X {n \in 1..consumedSeqRef : n + ShownLines > consumedSeqRef}

\* What the panel says of a capture's end is what its sidecar says: an error is never
\* announced as a stop, unless the file has been deleted meanwhile or there is no sidecar.
SaidAsEnded ==
    \A c \in Captures : \/ said[c] = "none" \/ ended[c] \in {said[c], "deleted"}
                        \/ ended[c] = "lost" /\ said[c] = "stopped"
=============================================================================
