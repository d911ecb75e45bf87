------------------------------ MODULE VmCapture ------------------------------
(***************************************************************************)
(* The packet-capture session manager (internal/vm_capture_engine.go):     *)
(* HTTP handlers reserve a slot, open an SSH session to a guest, register  *)
(* the session in the manager and hand it to a pump goroutine; the stop    *)
(* and delete handlers, the duration timer and the pump itself all race to *)
(* stop and to finalize it.  sync.Once, the manager's mutex and the        *)
(* session's mutex are the only synchronisation.                           *)
(*                                                                         *)
(* A capture is identified by its file name, so it belongs to one VM       *)
(* (VmOf) and is started at most once.                                     *)
(***************************************************************************)
EXTENDS Naturals, FiniteSets

CONSTANTS VMs,       \* managed object references of virtual machines
          Captures,  \* capture file names (also bounds the number of starts)
          VmOf,      \* the VM a capture file name belongs to
          Cap,       \* vmCaptureGlobalConcurrent
          Handlers   \* which HTTP handlers clients call: stop, delete

ASSUME CaptureAssumption ==
    /\ VmOf \in [Captures -> VMs]
    /\ Cap \in Nat \ {0}
    /\ Handlers \subseteq {"stop", "delete"}

(* Everybody who ever calls requestStop on a session, and the reason given. *)
Stoppers == {"stop", "delete", "timer", "overSize", "badHeader"}

ReasonOf == [w \in Stoppers |->
    CASE w \in {"stop", "delete"} -> "manual"
      [] w = "timer"              -> "duration"
      [] w = "overSize"           -> "size"
      [] w = "badHeader"          -> "remote-exit"]
NoReason == "none"
Reasons == {"manual", "size", "duration", "remote-exit", NoReason}

VARIABLES
    starting,   \* m.starting: VMs with a reserved slot
    sessions,   \* m.sessions: registered captures
    phase,      \* where the start call of a capture stands
    timer,      \* s.durTimer
    ssh,        \* the SSH session: open, or who ended it first
    stopOnce,   \* s.stopOnce: not called, inside its function, done
    reason,     \* s.StopReason
    status,     \* s.Status
    pump,       \* where the pump goroutine stands
    call,       \* call[c][w]: where stopper w stands with capture c
    fin,        \* s.finishOnce: who entered finalize, then its steps
    meta,       \* the metadata finalize took under the session's mutex
    metaFile,   \* captures whose {name}.meta.json exists
    pcap,       \* captures whose .pcap exists
    lost        \* (history) captures whose sidecar could not be written

slotVars == <<starting, sessions, phase>>
stopVars == <<ssh, stopOnce, reason, status>>
fileVars == <<metaFile, pcap, lost>>
vars == <<slotVars, timer, stopVars, pump, call, fin, meta, fileVars>>

Phases == {"none", "opened", "registered", "armed", "launched", "failed", "rejected"}
PumpStates == {"none", "header", "reading", "stopping", "returning", "exited"}
CallStates == {"idle", "asked", "closing", "waiting", "finalizing",
               "returned", "deleted", "notFound"}
FinStates == {"no", "byPump", "byWaiter", "stamped", "written", "closed", "out"}
Statuses == {"running", "done", "error"}

TypeOK ==
    /\ starting \subseteq VMs
    /\ sessions \subseteq Captures
    /\ phase \in [Captures -> Phases]
    /\ timer \in [Captures -> {"nil", "armed", "over"}]
    /\ ssh \in [Captures -> {"open", "local", "remote"}]
    /\ stopOnce \in [Captures -> {"no", "inside", "done"}]
    /\ reason \in [Captures -> Reasons]
    /\ status \in [Captures -> Statuses]
    /\ pump \in [Captures -> PumpStates]
    /\ call \in [Captures -> [Stoppers -> CallStates]]
    /\ fin \in [Captures -> FinStates]
    /\ meta \in [Captures -> [reason : Reasons, status : Statuses]]
    /\ metaFile \subseteq Captures
    /\ pcap \subseteq Captures
    /\ lost \subseteq Captures

Init ==
    /\ starting = {}
    /\ sessions = {}
    /\ phase = [c \in Captures |-> "none"]
    /\ timer = [c \in Captures |-> "nil"]
    /\ ssh = [c \in Captures |-> "open"]
    /\ stopOnce = [c \in Captures |-> "no"]
    /\ reason = [c \in Captures |-> NoReason]
    /\ status = [c \in Captures |-> "running"]
    /\ pump = [c \in Captures |-> "none"]
    /\ call = [c \in Captures |-> [w \in Stoppers |-> "idle"]]
    /\ fin = [c \in Captures |-> "no"]
    /\ meta = [c \in Captures |-> [reason |-> NoReason, status |-> "running"]]
    /\ metaFile = {}
    /\ pcap = {}
    /\ lost = {}

-----------------------------------------------------------------------------
(* start *)

Running(v) == \E c \in sessions : VmOf[c] = v
Opening(v) == \E c \in Captures : VmOf[c] = v /\ phase[c] = "opened"

\* Mutant: reservations are not counted against the limit.
SlotFreeSessionsOnly == Cardinality(sessions) < Cap

SlotFree == Cardinality(sessions) + Cardinality(starting) < Cap

\* Mutant: start does not look for a session of the VM.
ReserveBlind(v) ==
    /\ v \notin starting
    /\ SlotFree
    /\ starting' = starting \cup {v}
    /\ UNCHANGED <<sessions, phase, timer, stopVars, pump, call, fin, meta, fileVars>>

(* First critical section: the VM is free and the global limit not reached. *)
Reserve(v) ==
    /\ ~ Running(v)
    /\ v \notin starting
    /\ SlotFree
    /\ starting' = starting \cup {v}
    /\ UNCHANGED <<sessions, phase, timer, stopVars, pump, call, fin, meta, fileVars>>

(* SSH, BPF check, MkdirAll or OpenFile fails; the deferred release runs. *)
StartFails(v) ==
    /\ v \in starting
    /\ ~ Opening(v)
    /\ starting' = starting \ {v}
    /\ UNCHANGED <<sessions, phase, timer, stopVars, pump, call, fin, meta, fileVars>>

OpenFile(c) ==
    /\ VmOf[c] \in starting
    /\ ~ Opening(VmOf[c])
    /\ phase[c] = "none"
    /\ phase' = [phase EXCEPT ![c] = "opened"]
    /\ pcap' = pcap \cup {c}
    /\ UNCHANGED <<starting, sessions, timer, stopVars, pump, call, fin, meta, metaFile, lost>>

(* NewSession, a pipe or tcpdump fails: file removed, slot released. *)
SessionFails(c) ==
    /\ phase[c] = "opened"
    /\ phase' = [phase EXCEPT ![c] = "failed"]
    /\ starting' = starting \ {VmOf[c]}
    /\ pcap' = pcap \ {c}
    /\ UNCHANGED <<sessions, timer, stopVars, pump, call, fin, meta, metaFile, lost>>

(* Second critical section: the reservation becomes a session, unless the   *)
(* defensive re-check finds the VM or the limit taken meanwhile.            *)
Register(c) ==
    /\ phase[c] = "opened"
    /\ starting' = starting \ {VmOf[c]}
    /\ \/ /\ ~ Running(VmOf[c]) /\ Cardinality(sessions) < Cap
          /\ sessions' = sessions \cup {c}
          /\ phase' = [phase EXCEPT ![c] = "registered"]
          /\ UNCHANGED pcap
       \/ /\ Running(VmOf[c]) \/ Cardinality(sessions) >= Cap
          /\ phase' = [phase EXCEPT ![c] = "rejected"]
          /\ pcap' = pcap \ {c}
          /\ UNCHANGED sessions
    /\ UNCHANGED <<timer, stopVars, pump, call, fin, meta, metaFile, lost>>

(* After the unlock: the timer is armed, then the pump goroutine launched.  *)
(* Other handlers see the session from Register on.                         *)
ArmTimer(c) ==
    /\ phase[c] = "registered"
    /\ phase' = [phase EXCEPT ![c] = "armed"]
    /\ timer' = [timer EXCEPT ![c] = "armed"]
    /\ UNCHANGED <<starting, sessions, stopVars, pump, call, fin, meta, fileVars>>

LaunchPump(c) ==
    /\ phase[c] = "armed"
    /\ phase' = [phase EXCEPT ![c] = "launched"]
    /\ pump' = [pump EXCEPT ![c] = "header"]
    /\ UNCHANGED <<starting, sessions, timer, stopVars, call, fin, meta, fileVars>>

-----------------------------------------------------------------------------
(* requestStop: once, the reason is recorded before the SSH session closes. *)

Move(c, w, from, to) ==
    /\ call[c][w] = from
    /\ call' = [call EXCEPT ![c][w] = to]

\* Mutant: requestStop closes the SSH session without recording a reason.
SetNoReason(c, w) ==
    /\ Move(c, w, "asked", "closing")
    /\ stopOnce[c] = "no"
    /\ stopOnce' = [stopOnce EXCEPT ![c] = "inside"]
    /\ UNCHANGED <<slotVars, timer, ssh, reason, status, pump, fin, meta, fileVars>>

SetReason(c, w) ==
    /\ Move(c, w, "asked", "closing")
    /\ stopOnce[c] = "no"
    /\ stopOnce' = [stopOnce EXCEPT ![c] = "inside"]
    /\ reason' = [reason EXCEPT ![c] = IF @ = NoReason THEN ReasonOf[w] ELSE @]
    /\ UNCHANGED <<slotVars, timer, ssh, status, pump, fin, meta, fileVars>>

EndSsh(c, how) == ssh' = [ssh EXCEPT ![c] = IF @ = "open" THEN how ELSE @]

CloseSsh(c, w) ==
    /\ Move(c, w, "closing", "waiting")
    /\ stopOnce' = [stopOnce EXCEPT ![c] = "done"]
    /\ EndSsh(c, "local")
    /\ UNCHANGED <<slotVars, timer, reason, status, pump, fin, meta, fileVars>>

(* A later caller of the Once returns when the first call has returned. *)
AlreadyStopped(c, w) ==
    /\ stopOnce[c] = "done"
    /\ Move(c, w, "asked", "waiting")
    /\ UNCHANGED <<slotVars, timer, stopVars, pump, fin, meta, fileVars>>

-----------------------------------------------------------------------------
(* finalize: once; the steps follow the function's body. *)

(* A thread enters the Once: the timer is stopped (if start has armed it)   *)
(* and the SSH session closed.                                              *)
\* Mutant: finalize without its sync.Once.
EnterAgain(c, who) ==
    /\ fin' = [fin EXCEPT ![c] = who]
    /\ timer' = [timer EXCEPT ![c] = IF @ = "armed" THEN "over" ELSE @]
    /\ EndSsh(c, "local")

Enter(c, who) ==
    /\ fin[c] = "no"
    /\ fin' = [fin EXCEPT ![c] = who]
    /\ timer' = [timer EXCEPT ![c] = IF @ = "armed" THEN "over" ELSE @]
    /\ EndSsh(c, "local")

(* Under s.mu: the reason is the argument if nobody asked to stop, which is *)
(* "remote-exit" for the pump and empty for waitDone; metaLocked copies.    *)
Stamp(c) ==
    /\ fin[c] \in {"byPump", "byWaiter"}
    /\ fin' = [fin EXCEPT ![c] = "stamped"]
    /\ reason' = [reason EXCEPT ![c] =
         IF @ = NoReason /\ fin[c] = "byPump" THEN "remote-exit" ELSE @]
    /\ status' = [status EXCEPT ![c] = IF @ = "running" THEN "done" ELSE @]
    /\ meta' = [meta EXCEPT ![c] = [reason |-> reason'[c], status |-> status'[c]]]
    /\ UNCHANGED <<slotVars, timer, ssh, stopOnce, pump, call, fileVars>>

WriteSidecar(c) ==
    /\ fin[c] = "stamped"
    /\ fin' = [fin EXCEPT ![c] = "written"]
    /\ \/ metaFile' = metaFile \cup {c} /\ UNCHANGED lost
       \/ lost' = lost \cup {c} /\ UNCHANGED metaFile  \* OpenFile failed
    /\ UNCHANGED <<slotVars, timer, stopVars, pump, call, meta, pcap>>

CloseDone(c) ==
    /\ fin[c] = "written"
    /\ fin' = [fin EXCEPT ![c] = "closed"]
    /\ UNCHANGED <<slotVars, timer, stopVars, pump, call, meta, fileVars>>

\* Mutant: the session leaves the manager before its sidecar is written.
UnregisterEarly(c) ==
    /\ fin[c] \in {"stamped", "closed"}
    /\ fin' = [fin EXCEPT ![c] = IF @ = "closed" THEN "out" ELSE @]
    /\ sessions' = sessions \ {c}
    /\ UNCHANGED <<starting, phase, timer, stopVars, pump, call, meta, fileVars>>

Unregister(c) ==
    /\ fin[c] = "closed"
    /\ fin' = [fin EXCEPT ![c] = "out"]
    /\ sessions' = sessions \ {c}
    /\ UNCHANGED <<starting, phase, timer, stopVars, pump, call, meta, fileVars>>

\* Mutant: done is closed when finalize begins, before the sidecar is written.
DoneClosedEarly(c) == fin[c] # "no"

DoneClosed(c) == fin[c] \in {"closed", "out"}

-----------------------------------------------------------------------------
(* stop = requestStop and waitDone: the handlers and the timer. *)

(* runningSessionByName finds the session in the manager. *)
FindRunning(c, w) ==
    /\ w \in Handlers
    /\ c \in sessions
    /\ Move(c, w, "idle", "asked")
    /\ UNCHANGED <<slotVars, timer, stopVars, pump, fin, meta, fileVars>>

TimerFires(c) ==
    /\ timer[c] = "armed"
    /\ timer' = [timer EXCEPT ![c] = "over"]
    /\ Move(c, "timer", "idle", "asked")
    /\ UNCHANGED <<slotVars, stopVars, pump, fin, meta, fileVars>>

Blocking == {"stop", "delete", "timer"}

WaitDone(c, w) ==
    /\ w \in Blocking
    /\ DoneClosed(c)
    /\ Move(c, w, "waiting", "returned")
    /\ UNCHANGED <<slotVars, timer, stopVars, pump, fin, meta, fileVars>>

\* Mutant: a timed-out wait gives up instead of finalizing.
WaitGivesUp(c, w) ==
    /\ w \in Blocking
    /\ Move(c, w, "waiting", "returned")
    /\ UNCHANGED <<slotVars, timer, stopVars, pump, fin, meta, fileVars>>

(* The wait times out: finalize(""), here or in the thread already inside. *)
WaitTimesOut(c, w) ==
    /\ w \in Blocking
    /\ Move(c, w, "waiting", "finalizing")
    /\ \/ Enter(c, "byWaiter")
       \/ fin[c] # "no" /\ UNCHANGED <<fin, timer, ssh>>
    /\ UNCHANGED <<slotVars, stopOnce, reason, status, pump, meta, fileVars>>

FinalizeReturns(c, w) ==
    /\ fin[c] = "out"
    /\ Move(c, w, "finalizing", "returned")
    /\ UNCHANGED <<slotVars, timer, stopVars, pump, fin, meta, fileVars>>

(* handleVMCaptureDelete once the session is over (or was never running):   *)
(* the sidecar is read, and the files removed only if it is there.          *)
DeleteFiles(c) ==
    /\ \/ call[c]["delete"] = "returned"
       \/ /\ call[c]["delete"] = "idle" /\ "delete" \in Handlers
          /\ c \notin sessions /\ c \in metaFile
    /\ call' = [call EXCEPT ![c]["delete"] =
                  IF c \in metaFile THEN "deleted" ELSE "notFound"]
    /\ metaFile' = metaFile \ {c}
    /\ pcap' = IF c \in metaFile THEN pcap \ {c} ELSE pcap
    /\ UNCHANGED <<slotVars, timer, stopVars, pump, fin, meta, lost>>

-----------------------------------------------------------------------------
(* pump, and the remote side *)

RemoteEnds(c) ==
    /\ phase[c] \notin {"none", "failed", "rejected"}
    /\ ssh[c] = "open"
    /\ EndSsh(c, "remote")
    /\ UNCHANGED <<slotVars, timer, stopOnce, reason, status, pump, call, fin, meta, fileVars>>

PumpTo(c, from, to) ==
    /\ pump[c] = from
    /\ pump' = [pump EXCEPT ![c] = to]

ReadHeader(c) ==
    /\ PumpTo(c, "header", "reading")
    /\ UNCHANGED <<slotVars, timer, stopVars, call, fin, meta, fileVars>>

(* NewReader fails: no pcap header arrived before the end, or not pcap.     *)
BadHeader(c) ==
    /\ PumpTo(c, "header", "stopping")
    /\ status' = [status EXCEPT ![c] = "error"]
    /\ Move(c, "badHeader", "idle", "asked")
    /\ UNCHANGED <<slotVars, timer, ssh, stopOnce, reason, fin, meta, fileVars>>

EndOfStream(c) ==
    /\ ssh[c] # "open"
    /\ PumpTo(c, "reading", "returning")
    /\ UNCHANGED <<slotVars, timer, stopVars, call, fin, meta, fileVars>>

(* A corrupt stream, or the tee to the pcap file failed. *)
ReadError(c) ==
    /\ PumpTo(c, "reading", "returning")
    /\ status' = [status EXCEPT ![c] = "error"]
    /\ UNCHANGED <<slotVars, timer, ssh, stopOnce, reason, call, fin, meta, fileVars>>

OverSize(c) ==
    /\ PumpTo(c, "reading", "stopping")
    /\ Move(c, "overSize", "idle", "asked")
    /\ UNCHANGED <<slotVars, timer, stopVars, fin, meta, fileVars>>

PumpStopReturns(c) ==
    /\ \E w \in {"overSize", "badHeader"} : Move(c, w, "waiting", "returned")
    /\ PumpTo(c, "stopping", "returning")
    /\ UNCHANGED <<slotVars, timer, stopVars, fin, meta, fileVars>>

(* The deferred finalize("remote-exit"). *)
PumpFinalizes(c) ==
    /\ PumpTo(c, "returning", "exited")
    /\ \/ Enter(c, "byPump")
       \/ fin[c] # "no" /\ UNCHANGED <<fin, timer, ssh>>
    /\ UNCHANGED <<slotVars, stopOnce, reason, status, call, meta, fileVars>>

-----------------------------------------------------------------------------
StartStep(c) == OpenFile(c) \/ SessionFails(c) \/ Register(c)
LaunchStep(c) == ArmTimer(c) \/ LaunchPump(c)
StopStep(c, w) == SetReason(c, w) \/ CloseSsh(c, w) \/ AlreadyStopped(c, w)
WaitStep(c, w) == WaitDone(c, w) \/ WaitTimesOut(c, w) \/ FinalizeReturns(c, w)
FinalizeStep(c) == Stamp(c) \/ WriteSidecar(c) \/ CloseDone(c) \/ Unregister(c)
PumpStep(c) ==
    \/ ReadHeader(c) \/ BadHeader(c) \/ EndOfStream(c) \/ ReadError(c)
    \/ OverSize(c) \/ PumpStopReturns(c) \/ PumpFinalizes(c)

Next ==
    \/ \E v \in VMs : Reserve(v) \/ StartFails(v)
    \/ \E c \in Captures :
          \/ StartStep(c) \/ LaunchStep(c)
          \/ TimerFires(c) \/ RemoteEnds(c) \/ PumpStep(c)
          \/ FinalizeStep(c) \/ DeleteFiles(c)
          \/ \E w \in Stoppers : FindRunning(c, w) \/ StopStep(c, w) \/ WaitStep(c, w)

(* What the Go scheduler, the runtime timer and the SSH layer guarantee: a  *)
(* start call gets an answer, running goroutines advance, a timer fires and *)
(* a timed wait ends.  Nothing is assumed of the pump, of the remote end,   *)
(* or of clients.                                                           *)
Fairness ==
    /\ \A v \in VMs :
         WF_vars(StartFails(v) \/ \E c \in Captures : VmOf[c] = v /\ StartStep(c))
    /\ \A c \in Captures :
         /\ WF_vars(LaunchStep(c))
         /\ WF_vars(TimerFires(c))
         /\ WF_vars(FinalizeStep(c))
         /\ \A w \in Stoppers : WF_vars(StopStep(c, w)) /\ WF_vars(WaitStep(c, w))

Spec == Init /\ [][Next]_vars
FairSpec == Spec /\ Fairness

-----------------------------------------------------------------------------
(* Properties *)

(* The global limit: reservations and sessions together never exceed Cap,   *)
(* although the slow part of start runs outside the mutex.                  *)
SlotBound == Cardinality(sessions) + Cardinality(starting) <= Cap

(* One capture per VM: no two sessions of a VM, and no reservation next to  *)
(* a session, whoever else starts or finalizes meanwhile.                   *)
OnePerVM ==
    /\ \A c, d \in sessions : VmOf[c] = VmOf[d] => c = d
    /\ \A c \in sessions : VmOf[c] \notin starting

(* "no other session should enter while the slot is reserved": the re-check *)
(* in the second critical section of start never rejects a capture.         *)
RecheckNeverFires == \A c \in Captures : phase[c] # "rejected"

(* A status poll of a started capture finds it running or finds its sidecar *)
(* until the capture is deleted; there is no gap at the hand-over.          *)
NoStatusGap ==
    \A c \in Captures :
        phase[c] \in {"registered", "armed", "launched"} =>
            \/ c \in sessions \cup metaFile \cup lost
            \/ call[c]["delete"] = "deleted"

(* The delete handler waits for the sidecar: deleting a running capture     *)
(* never ends in "not found", unless the sidecar could not be written.      *)
DeleteFindsSidecar ==
    \A c \in Captures : call[c]["delete"] = "notFound" => c \in lost

(* A deleted capture leaves no file, and no late finalize brings one back.  *)
DeletedStaysDeleted ==
    \A c \in Captures : call[c]["delete"] = "deleted" => c \notin metaFile \cup pcap

(* A sidecar always names why the capture ended, and says remote-exit only  *)
(* if the remote side ended it or the stream was unreadable, never for an   *)
(* end this process asked for.                                              *)
SidecarReason ==
    \A c \in metaFile :
        /\ meta[c].reason # NoReason
        /\ meta[c].reason = "remote-exit" => ssh[c] = "remote" \/ status[c] = "error"

-----------------------------------------------------------------------------
(* What SlotBound, OnePerVM and RecheckNeverFires rest on: a reservation    *)
(* lasts until its capture is registered, one opened file per reservation.  *)
SlotInv ==
    /\ IsFiniteSet(starting) /\ IsFiniteSet(sessions)
    /\ SlotBound
    /\ OnePerVM
    /\ RecheckNeverFires
    /\ \A c \in Captures : phase[c] = "opened" => VmOf[c] \in starting
    /\ \A c, d \in Captures :
         phase[c] = "opened" /\ phase[d] = "opened" /\ VmOf[c] = VmOf[d] => c = d

(* The slots a client sees, as the abstract specification names them.       *)
slotOf == [v \in VMs |-> IF v \in starting THEN "starting"
                         ELSE IF Running(v) THEN "running" ELSE "idle"]
Slots == INSTANCE CaptureSlots WITH slot <- slotOf

(* The manager implements the abstract slot table: no step of any handler,  *)
(* timer or pump moves a slot in a way the table does not allow, and every  *)
(* slot is given back.                                                      *)
ImplementsSlots == Slots!SlotSpec

=============================================================================
