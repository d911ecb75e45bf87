--------------------------- MODULE VmCaptureProofs ---------------------------
(* Theorems about VmCapture for every set of VMs, captures and handlers and *)
(* every limit.                                                             *)
EXTENDS VmCapture, FiniteSetTheorems, TLAPS

USE DEF Phases, PumpStates, CallStates, FinStates, Statuses, Reasons, NoReason

\* Each stopper gives a reason.
LEMMA ReasonOfType == ReasonOf \in [Stoppers -> Reasons]
  BY SMT DEF ReasonOf, Stoppers

\* The reason is never empty, and only a bad header counts as a remote exit.
LEMMA ReasonOfValues ==
  \A w \in Stoppers : /\ ReasonOf[w] # NoReason
                      /\ ReasonOf[w] = "remote-exit" => w = "badHeader"
  BY SMT DEF ReasonOf, Stoppers

\* Entering finalization keeps the types of what it touches.
LEMMA EnterType ==
  ASSUME TypeOK, NEW c \in Captures, NEW who \in FinStates,
         Enter(c, who) \/ UNCHANGED <<fin, timer, ssh>>
  PROVE  /\ fin' \in [Captures -> FinStates]
         /\ timer' \in [Captures -> {"nil", "armed", "over"}]
         /\ ssh' \in [Captures -> {"open", "local", "remote"}]
<1>1. CASE Enter(c, who)
  BY <1>1 DEF TypeOK, Enter, EndSsh
<1>2. CASE UNCHANGED <<fin, timer, ssh>>
  BY <1>2 DEF TypeOK
<1>3. QED
  BY <1>1, <1>2

(* Every variable keeps its type: in particular a stop never records a      *)
(* reason outside the four the session record documents.                    *)
THEOREM TypeCorrect == Spec => []TypeOK
<1>1. Init => TypeOK
  BY DEF Init, TypeOK
<1>2. TypeOK /\ [Next]_vars => TypeOK'
  <2> SUFFICES ASSUME TypeOK, [Next]_vars PROVE TypeOK'
    OBVIOUS
  <2> USE DEF TypeOK, slotVars, stopVars, fileVars
    <2>1. ASSUME NEW v \in VMs, Reserve(v) PROVE TypeOK'
    BY <2>1 DEF Reserve
  <2>2. ASSUME NEW v \in VMs, StartFails(v) PROVE TypeOK'
    BY <2>2 DEF StartFails
  <2>3. ASSUME NEW c \in Captures, OpenFile(c) PROVE TypeOK'
    BY <2>3 DEF OpenFile
  <2>4. ASSUME NEW c \in Captures, SessionFails(c) PROVE TypeOK'
    BY <2>4 DEF SessionFails
  <2>5. ASSUME NEW c \in Captures, Register(c) PROVE TypeOK'
    <3>1. \/ sessions' = sessions \cup {c} /\ phase' = [phase EXCEPT ![c] = "registered"]
          \/ sessions' = sessions /\ phase' = [phase EXCEPT ![c] = "rejected"]
      BY <2>5 DEF Register
    <3>2. sessions' \subseteq Captures
      BY ONLY <3>1, TypeOK, c \in Captures DEF TypeOK
    <3>6. phase' \in [Captures -> Phases]
      <4>1. phase \in [Captures -> Phases] /\ {"registered", "rejected"} \subseteq Phases
        BY DEF Phases
      <4>2. QED
        BY ONLY <3>1, <4>1
    <3>3. starting' \subseteq VMs /\ pcap' \subseteq Captures
      BY <2>5 DEF Register
    <3>4. UNCHANGED <<timer, ssh, stopOnce, reason, status, pump, call, fin, meta, metaFile, lost>>
      BY <2>5 DEF Register
    <3>5. QED
      BY <3>2, <3>3, <3>4, <3>6
  <2>6. ASSUME NEW c \in Captures, ArmTimer(c) PROVE TypeOK'
    BY <2>6 DEF ArmTimer
  <2>7. ASSUME NEW c \in Captures, LaunchPump(c) PROVE TypeOK'
    BY <2>7 DEF LaunchPump
  <2>8. ASSUME NEW c \in Captures, TimerFires(c) PROVE TypeOK'
    BY <2>8 DEF TimerFires, Move, Stoppers
  <2>9. ASSUME NEW c \in Captures, RemoteEnds(c) PROVE TypeOK'
    BY <2>9 DEF RemoteEnds, EndSsh
  <2>10. ASSUME NEW c \in Captures, ReadHeader(c) PROVE TypeOK'
    BY <2>10 DEF ReadHeader, PumpTo
  <2>11. ASSUME NEW c \in Captures, BadHeader(c) PROVE TypeOK'
    BY <2>11 DEF BadHeader, PumpTo, Move, Stoppers
  <2>12. ASSUME NEW c \in Captures, EndOfStream(c) PROVE TypeOK'
    BY <2>12 DEF EndOfStream, PumpTo
  <2>13. ASSUME NEW c \in Captures, ReadError(c) PROVE TypeOK'
    BY <2>13 DEF ReadError, PumpTo
  <2>14. ASSUME NEW c \in Captures, OverSize(c) PROVE TypeOK'
    BY <2>14 DEF OverSize, PumpTo, Move, Stoppers
  <2>15. ASSUME NEW c \in Captures, PumpStopReturns(c) PROVE TypeOK'
    BY <2>15 DEF PumpStopReturns, PumpTo, Move, Stoppers
  <2>16. ASSUME NEW c \in Captures, PumpFinalizes(c) PROVE TypeOK'
    <3>1. Enter(c, "byPump") \/ UNCHANGED <<fin, timer, ssh>>
      BY <2>16 DEF PumpFinalizes
    <3>2. /\ fin' \in [Captures -> FinStates]
          /\ timer' \in [Captures -> {"nil", "armed", "over"}]
          /\ ssh' \in [Captures -> {"open", "local", "remote"}]
      BY <3>1, EnterType
    <3>3. QED
      BY <2>16, <3>2 DEF PumpFinalizes, PumpTo
  <2>17. ASSUME NEW c \in Captures, Stamp(c) PROVE TypeOK'
    BY <2>17 DEF Stamp
  <2>18. ASSUME NEW c \in Captures, WriteSidecar(c) PROVE TypeOK'
    BY <2>18 DEF WriteSidecar
  <2>19. ASSUME NEW c \in Captures, CloseDone(c) PROVE TypeOK'
    BY <2>19 DEF CloseDone
  <2>20. ASSUME NEW c \in Captures, Unregister(c) PROVE TypeOK'
    BY <2>20 DEF Unregister
  <2>21. ASSUME NEW c \in Captures, DeleteFiles(c) PROVE TypeOK'
    BY <2>21 DEF DeleteFiles, Stoppers
  <2>22. ASSUME NEW c \in Captures, NEW w \in Stoppers, FindRunning(c, w) PROVE TypeOK'
    BY <2>22 DEF FindRunning, Move
  <2>23. ASSUME NEW c \in Captures, NEW w \in Stoppers, SetReason(c, w) PROVE TypeOK'
    BY ReasonOfType, <2>23 DEF SetReason, Move
  <2>24. ASSUME NEW c \in Captures, NEW w \in Stoppers, CloseSsh(c, w) PROVE TypeOK'
    BY <2>24 DEF CloseSsh, Move, EndSsh
  <2>25. ASSUME NEW c \in Captures, NEW w \in Stoppers, AlreadyStopped(c, w) PROVE TypeOK'
    BY <2>25 DEF AlreadyStopped, Move
  <2>26. ASSUME NEW c \in Captures, NEW w \in Stoppers, WaitDone(c, w) PROVE TypeOK'
    BY <2>26 DEF WaitDone, Move
  <2>27. ASSUME NEW c \in Captures, NEW w \in Stoppers, WaitTimesOut(c, w) PROVE TypeOK'
    <3>1. Enter(c, "byWaiter") \/ UNCHANGED <<fin, timer, ssh>>
      BY <2>27 DEF WaitTimesOut
    <3>2. /\ fin' \in [Captures -> FinStates]
          /\ timer' \in [Captures -> {"nil", "armed", "over"}]
          /\ ssh' \in [Captures -> {"open", "local", "remote"}]
      BY <3>1, EnterType
    <3>3. QED
      BY <2>27, <3>2 DEF WaitTimesOut, Move
  <2>28. ASSUME NEW c \in Captures, NEW w \in Stoppers, FinalizeReturns(c, w) PROVE TypeOK'
    BY <2>28 DEF FinalizeReturns, Move
  <2>29. CASE UNCHANGED vars
    BY <2>29 DEF vars
  <2>30. QED
    BY <2>1, <2>2, <2>3, <2>4, <2>5, <2>6, <2>7, <2>8, <2>9, <2>10, <2>11, <2>12, <2>13, <2>14,
       <2>15, <2>16, <2>17, <2>18, <2>19, <2>20, <2>21, <2>22, <2>23, <2>24, <2>25, <2>26, <2>27,
       <2>28, <2>29
       DEF Next, StartStep, LaunchStep, StopStep, WaitStep, FinalizeStep, PumpStep
<1>3. QED
  BY <1>1, <1>2, PTL DEF Spec

-----------------------------------------------------------------------------
(* The steps outside start and Unregister leave the slot state alone, and   *)
(* those of the launch only move a registered capture on.                   *)
LEMMA OtherStepsKeepSlots ==
  ASSUME NEW c \in Captures, NEW w \in Stoppers,
         \/ TimerFires(c) \/ RemoteEnds(c) \/ PumpStep(c) \/ DeleteFiles(c)
         \/ Stamp(c) \/ WriteSidecar(c) \/ CloseDone(c)
         \/ FindRunning(c, w) \/ StopStep(c, w) \/ WaitStep(c, w)
  PROVE  UNCHANGED slotVars
<1>1. CASE TimerFires(c) \/ RemoteEnds(c) \/ PumpStep(c) \/ DeleteFiles(c)
  BY <1>1 DEF TimerFires, RemoteEnds, PumpStep, DeleteFiles, ReadHeader, BadHeader,
              EndOfStream, ReadError, OverSize, PumpStopReturns, PumpFinalizes
<1>2. CASE Stamp(c) \/ WriteSidecar(c) \/ CloseDone(c)
  BY <1>2 DEF Stamp, WriteSidecar, CloseDone
<1>3. CASE FindRunning(c, w) \/ StopStep(c, w) \/ WaitStep(c, w)
  BY <1>3 DEF FindRunning, StopStep, WaitStep, SetReason, CloseSsh, AlreadyStopped,
              WaitDone, WaitTimesOut, FinalizeReturns
<1>4. QED
  BY <1>1, <1>2, <1>3

\* At most the limit of captures hold slots, one to a VM, and the recheck after the lock
\* never refuses.
THEOREM SlotInvariant == Spec => []SlotInv
<1> USE CaptureAssumption
<1>1. Init => SlotInv
  BY FS_EmptySet DEF Init, SlotInv, SlotBound, OnePerVM, RecheckNeverFires
<1>2. TypeOK /\ SlotInv /\ [Next]_vars => SlotInv'
  <2> SUFFICES ASSUME TypeOK, SlotInv, [Next]_vars PROVE SlotInv'
    OBVIOUS
  <2> USE DEF SlotInv, SlotBound, OnePerVM, RecheckNeverFires
  <2>0. Cardinality(sessions) \in Nat /\ Cardinality(starting) \in Nat
    BY FS_CardinalityType
  <2>1. ASSUME NEW v \in VMs, Reserve(v) PROVE SlotInv'
    <3>1. IsFiniteSet(starting') /\ Cardinality(starting') = Cardinality(starting) + 1
      BY <2>1, FS_AddElement DEF Reserve
    <3>2. SlotBound'
      BY <2>0, <2>1, <3>1 DEF Reserve, SlotFree
    <3>3. QED
      BY <2>1, <3>1, <3>2 DEF Reserve, Running, TypeOK
  <2>2. ASSUME NEW v \in VMs, StartFails(v) PROVE SlotInv'
    <3>1. IsFiniteSet(starting') /\ Cardinality(starting') = Cardinality(starting) - 1
      BY <2>2, FS_RemoveElement DEF StartFails
    <3>2. SlotBound'
      BY <2>0, <2>2, <3>1 DEF StartFails
    <3>3. QED
      BY <2>2, <3>1, <3>2 DEF StartFails, Opening, TypeOK
  <2>3. ASSUME NEW c \in Captures, OpenFile(c) PROVE SlotInv'
    BY <2>3 DEF OpenFile, Opening, TypeOK
  <2>4. ASSUME NEW c \in Captures, SessionFails(c) PROVE SlotInv'
    <3>1. IsFiniteSet(starting') /\ Cardinality(starting') = Cardinality(starting) - 1
      BY <2>4, FS_RemoveElement DEF SessionFails
    <3>2. SlotBound'
      BY <2>0, <2>4, <3>1 DEF SessionFails
    <3>3. QED
      BY <2>4, <3>1, <3>2 DEF SessionFails, TypeOK
  <2>5. ASSUME NEW c \in Captures, Register(c) PROVE SlotInv'
    <3>1. VmOf[c] \in starting /\ ~ Running(VmOf[c])
      BY <2>5 DEF Register, Running, TypeOK
    <3>2. IsFiniteSet(starting') /\ Cardinality(starting') = Cardinality(starting) - 1
      BY <2>5, <3>1, FS_RemoveElement DEF Register
    <3>3. /\ sessions' = sessions \cup {c}
          /\ phase' = [phase EXCEPT ![c] = "registered"]
      BY <2>0, <2>5, <3>1, <3>2, FS_CardinalityType DEF Register
    <3>4. IsFiniteSet(sessions') /\ Cardinality(sessions') <= Cardinality(sessions) + 1
      <4>1. /\ IsFiniteSet(sessions \cup {c})
            /\ Cardinality(sessions \cup {c}) =
                 IF c \in sessions THEN Cardinality(sessions) ELSE Cardinality(sessions) + 1
        BY FS_AddElement
      <4>2. QED
        BY <2>0, <3>3, <4>1
    <3>5. SlotBound'
      BY <2>0, <3>2, <3>4, FS_CardinalityType
    <3>6. OnePerVM'
      BY <2>5, <3>1, <3>3 DEF Register, Running, TypeOK
    <3>7. QED
      BY <2>5, <3>1, <3>2, <3>3, <3>4, <3>5, <3>6 DEF Register, TypeOK
  <2>6. ASSUME NEW c \in Captures, LaunchStep(c) PROVE SlotInv'
    <3>1. /\ UNCHANGED <<starting, sessions>>
          /\ \A d \in Captures : phase'[d] \in {"opened", "rejected"} => phase'[d] = phase[d]
      BY <2>6 DEF LaunchStep, ArmTimer, LaunchPump, TypeOK
    <3>2. QED
      BY <3>1
  <2>7. ASSUME NEW c \in Captures, Unregister(c) PROVE SlotInv'
    <3>1. IsFiniteSet(sessions') /\ Cardinality(sessions') <= Cardinality(sessions)
      <4>1. /\ IsFiniteSet(sessions \ {c})
            /\ Cardinality(sessions \ {c}) =
                 IF c \in sessions THEN Cardinality(sessions) - 1 ELSE Cardinality(sessions)
        BY FS_RemoveElement
      <4>2. QED
        BY <2>0, <2>7, <4>1 DEF Unregister
    <3>2. SlotBound'
      BY <2>0, <2>7, <3>1, FS_CardinalityType DEF Unregister
    <3>3. QED
      BY <2>7, <3>1, <3>2 DEF Unregister, TypeOK
  <2>8. CASE UNCHANGED slotVars
    BY <2>8 DEF slotVars
  <2>9. QED
    BY <2>1, <2>2, <2>3, <2>4, <2>5, <2>6, <2>7, <2>8, OtherStepsKeepSlots
       DEF Next, StartStep, FinalizeStep, vars, Stoppers
<1>3. QED
  BY <1>1, <1>2, TypeCorrect, PTL DEF Spec

(* The global capture limit holds for every limit and any number of VMs.    *)
THEOREM SlotBoundHolds == Spec => []SlotBound
  BY SlotInvariant, PTL DEF SlotInv

(* No VM ever has two captures, or a capture and a reservation.             *)
THEOREM OnePerVMHolds == Spec => []OnePerVM
  BY SlotInvariant, PTL DEF SlotInv

(* The defensive re-check of start is dead code: it never rejects.          *)
THEOREM RecheckIsIdle == Spec => []RecheckNeverFires
  BY SlotInvariant, PTL DEF SlotInv
-----------------------------------------------------------------------------
(* What becomes of a capture's files: nothing exists of a capture that was  *)
(* not registered; it is in the manager until finalize's last step; its     *)
(* sidecar appears with finalize's third one; delete looks for it later.    *)
Started(c) == phase[c] \in {"registered", "armed", "launched"}

FilesOf(c) ==
    /\ ~Started(c) => /\ fin[c] = "no" /\ c \notin metaFile \cup lost
                      /\ pump[c] = "none" /\ timer[c] = "nil"
                      /\ \A w \in Stoppers : call[c][w] = "idle"
    /\ c \in sessions <=> Started(c) /\ fin[c] # "out"
    /\ fin[c] \in {"no", "byPump", "byWaiter", "stamped"} => c \notin metaFile \cup lost
    /\ fin[c] \in {"written", "closed", "out"} =>
         c \in metaFile \cup lost \/ call[c]["delete"] = "deleted"
    /\ call[c]["delete"] \in {"returned", "deleted", "notFound"} => DoneClosed(c)
    /\ call[c]["delete"] = "deleted" => c \notin metaFile \cup pcap
    /\ call[c]["delete"] = "notFound" => c \in lost

FilesInv == \A c \in Captures : FilesOf(c)

(* Why a capture ended: whoever is past requestStop found a reason there or *)
(* left one, and the pump runs out of packets without one only if the       *)
(* remote side ended it or the stream was unreadable.                       *)
Remote(c) == ssh[c] = "remote" \/ status[c] = "error"

ReasonsOf(c) ==
    /\ \A w \in Stoppers : call[c][w] \in {"closing", "waiting", "finalizing"} => stopOnce[c] # "no"
    /\ stopOnce[c] # "no" => reason[c] # NoReason
    /\ fin[c] = "byWaiter" => reason[c] # NoReason
    /\ ssh[c] = "local" => reason[c] # NoReason \/ fin[c] # "no"
    /\ call[c]["badHeader"] # "idle" => status[c] = "error"
    /\ reason[c] = "remote-exit" => Remote(c)
    /\ pump[c] = "returning" /\ fin[c] = "no" /\ reason[c] = NoReason => Remote(c)
    /\ fin[c] = "byPump" /\ reason[c] = NoReason => Remote(c)
    /\ fin[c] \in {"stamped", "written", "closed", "out"} =>
         meta[c].reason # NoReason /\ (meta[c].reason = "remote-exit" => Remote(c))

ReasonsInv == \A c \in Captures : ReasonsOf(c)

(* Every step keeps the record of a capture's files.                        *)
LEMMA FilesStep ==
  ASSUME TypeOK, FilesInv, Next
  PROVE  FilesInv'
<1> USE DEF TypeOK, FilesInv, FilesOf, Started, DoneClosed, slotVars, stopVars, fileVars, Stoppers
<1>0. ASSUME NEW v \in VMs, Reserve(v) \/ StartFails(v) PROVE FilesInv'
  BY <1>0 DEF Reserve, StartFails
<1>1. ASSUME NEW c \in Captures, OpenFile(c) PROVE FilesInv'
  BY <1>1 DEF OpenFile
<1>2. ASSUME NEW c \in Captures, SessionFails(c) PROVE FilesInv'
  BY <1>2 DEF SessionFails
<1>3. ASSUME NEW c \in Captures, Register(c) PROVE FilesInv'
  BY <1>3 DEF Register
<1>4. ASSUME NEW c \in Captures, ArmTimer(c) PROVE FilesInv'
  BY <1>4 DEF ArmTimer
<1>5. ASSUME NEW c \in Captures, LaunchPump(c) PROVE FilesInv'
  BY <1>5 DEF LaunchPump
<1>6. ASSUME NEW c \in Captures, TimerFires(c) PROVE FilesInv'
  BY <1>6 DEF TimerFires, Move
<1>7. ASSUME NEW c \in Captures, RemoteEnds(c) PROVE FilesInv'
  BY <1>7 DEF RemoteEnds, EndSsh
<1>8. ASSUME NEW c \in Captures, ReadHeader(c) PROVE FilesInv'
  BY <1>8 DEF ReadHeader, PumpTo
<1>9. ASSUME NEW c \in Captures, BadHeader(c) PROVE FilesInv'
  BY <1>9 DEF BadHeader, PumpTo, Move
<1>10. ASSUME NEW c \in Captures, EndOfStream(c) PROVE FilesInv'
  BY <1>10 DEF EndOfStream, PumpTo
<1>11. ASSUME NEW c \in Captures, ReadError(c) PROVE FilesInv'
  BY <1>11 DEF ReadError, PumpTo
<1>12. ASSUME NEW c \in Captures, OverSize(c) PROVE FilesInv'
  BY <1>12 DEF OverSize, PumpTo, Move
<1>13. ASSUME NEW c \in Captures, PumpStopReturns(c) PROVE FilesInv'
  BY <1>13 DEF PumpStopReturns, PumpTo, Move
<1>14. ASSUME NEW c \in Captures, PumpFinalizes(c) PROVE FilesInv'
  BY <1>14 DEF PumpFinalizes, PumpTo, Enter, EndSsh
<1>15. ASSUME NEW c \in Captures, Stamp(c) PROVE FilesInv'
  BY <1>15 DEF Stamp
<1>16. ASSUME NEW c \in Captures, WriteSidecar(c) PROVE FilesInv'
  BY <1>16 DEF WriteSidecar
<1>17. ASSUME NEW c \in Captures, CloseDone(c) PROVE FilesInv'
  BY <1>17 DEF CloseDone
<1>18. ASSUME NEW c \in Captures, Unregister(c) PROVE FilesInv'
  BY <1>18 DEF Unregister
<1>19. ASSUME NEW c \in Captures, DeleteFiles(c) PROVE FilesInv'
  BY <1>19 DEF DeleteFiles
<1>20. ASSUME NEW c \in Captures, NEW w \in Stoppers, FindRunning(c, w) PROVE FilesInv'
  BY <1>20 DEF FindRunning, Move
<1>21. ASSUME NEW c \in Captures, NEW w \in Stoppers, SetReason(c, w) PROVE FilesInv'
  BY <1>21 DEF SetReason, Move
<1>22. ASSUME NEW c \in Captures, NEW w \in Stoppers, CloseSsh(c, w) PROVE FilesInv'
  BY <1>22 DEF CloseSsh, Move, EndSsh
<1>23. ASSUME NEW c \in Captures, NEW w \in Stoppers, AlreadyStopped(c, w) PROVE FilesInv'
  BY <1>23 DEF AlreadyStopped, Move
<1>24. ASSUME NEW c \in Captures, NEW w \in Stoppers, WaitDone(c, w) PROVE FilesInv'
  BY <1>24 DEF WaitDone, Move, DoneClosed
<1>25. ASSUME NEW c \in Captures, NEW w \in Stoppers, WaitTimesOut(c, w) PROVE FilesInv'
  BY <1>25 DEF WaitTimesOut, Move, Enter, EndSsh
<1>26. ASSUME NEW c \in Captures, NEW w \in Stoppers, FinalizeReturns(c, w) PROVE FilesInv'
  BY <1>26 DEF FinalizeReturns, Move
<1>27. QED
  BY ONLY Next, <1>0, <1>1, <1>2, <1>3, <1>4, <1>5, <1>6, <1>7, <1>8, <1>9, <1>10, <1>11, <1>12,
     <1>13, <1>14, <1>15, <1>16, <1>17, <1>18, <1>19, <1>20, <1>21, <1>22, <1>23, <1>24, <1>25,
     <1>26
     DEF Next, StartStep, LaunchStep, StopStep, WaitStep, FinalizeStep, PumpStep

(* Every step keeps the record of why captures ended.                       *)
LEMMA ReasonsStep ==
  ASSUME TypeOK, ReasonsInv, Next
  PROVE  ReasonsInv'
<1> USE DEF TypeOK, ReasonsInv, ReasonsOf, Remote, slotVars, stopVars, fileVars, Stoppers
<1>0. ASSUME NEW v \in VMs, Reserve(v) \/ StartFails(v) PROVE ReasonsInv'
  BY <1>0 DEF Reserve, StartFails
<1>1. ASSUME NEW c \in Captures, OpenFile(c) PROVE ReasonsInv'
  BY <1>1 DEF OpenFile
<1>2. ASSUME NEW c \in Captures, SessionFails(c) PROVE ReasonsInv'
  BY <1>2 DEF SessionFails
<1>3. ASSUME NEW c \in Captures, Register(c) PROVE ReasonsInv'
  BY <1>3 DEF Register
<1>4. ASSUME NEW c \in Captures, ArmTimer(c) PROVE ReasonsInv'
  BY <1>4 DEF ArmTimer
<1>5. ASSUME NEW c \in Captures, LaunchPump(c) PROVE ReasonsInv'
  BY <1>5 DEF LaunchPump
<1>6. ASSUME NEW c \in Captures, TimerFires(c) PROVE ReasonsInv'
  BY <1>6 DEF TimerFires, Move
<1>7. ASSUME NEW c \in Captures, RemoteEnds(c) PROVE ReasonsInv'
  BY <1>7 DEF RemoteEnds, EndSsh
<1>8. ASSUME NEW c \in Captures, ReadHeader(c) PROVE ReasonsInv'
  BY <1>8 DEF ReadHeader, PumpTo
<1>9. ASSUME NEW c \in Captures, BadHeader(c) PROVE ReasonsInv'
  BY <1>9 DEF BadHeader, PumpTo, Move
<1>10. ASSUME NEW c \in Captures, EndOfStream(c) PROVE ReasonsInv'
  BY <1>10 DEF EndOfStream, PumpTo
<1>11. ASSUME NEW c \in Captures, ReadError(c) PROVE ReasonsInv'
  BY <1>11 DEF ReadError, PumpTo
<1>12. ASSUME NEW c \in Captures, OverSize(c) PROVE ReasonsInv'
  BY <1>12 DEF OverSize, PumpTo, Move
<1>13. ASSUME NEW c \in Captures, PumpStopReturns(c) PROVE ReasonsInv'
  BY <1>13 DEF PumpStopReturns, PumpTo, Move
<1>14. ASSUME NEW c \in Captures, PumpFinalizes(c) PROVE ReasonsInv'
  BY <1>14 DEF PumpFinalizes, PumpTo, Enter, EndSsh
<1>15. ASSUME NEW c \in Captures, Stamp(c) PROVE ReasonsInv'
  BY <1>15 DEF Stamp
<1>16. ASSUME NEW c \in Captures, WriteSidecar(c) PROVE ReasonsInv'
  BY <1>16 DEF WriteSidecar
<1>17. ASSUME NEW c \in Captures, CloseDone(c) PROVE ReasonsInv'
  BY <1>17 DEF CloseDone
<1>18. ASSUME NEW c \in Captures, Unregister(c) PROVE ReasonsInv'
  BY <1>18 DEF Unregister
<1>19. ASSUME NEW c \in Captures, DeleteFiles(c) PROVE ReasonsInv'
  BY <1>19 DEF DeleteFiles
<1>20. ASSUME NEW c \in Captures, NEW w \in Stoppers, FindRunning(c, w) PROVE ReasonsInv'
  BY CaptureAssumption, <1>20 DEF FindRunning, Move
<1>21. ASSUME NEW c \in Captures, NEW w \in Stoppers, SetReason(c, w) PROVE ReasonsInv'
  <2>1. /\ reason'[c] # NoReason
        /\ reason'[c] = reason[c] \/ (reason'[c] = ReasonOf[w] /\ reason[c] = NoReason)
    BY <1>21, ReasonOfValues DEF SetReason
  <2>2. reason'[c] = "remote-exit" => Remote(c)
    BY <1>21, <2>1, ReasonOfValues DEF SetReason, Move
  <2>3. ReasonsOf(c)'
    BY <1>21, <2>1, <2>2 DEF SetReason, Move
  <2>4. ASSUME NEW d \in Captures, d # c PROVE ReasonsOf(d)'
    BY <1>21, <2>4 DEF SetReason, Move
  <2>5. QED
    BY <2>3, <2>4
<1>22. ASSUME NEW c \in Captures, NEW w \in Stoppers, CloseSsh(c, w) PROVE ReasonsInv'
  BY <1>22 DEF CloseSsh, Move, EndSsh
<1>23. ASSUME NEW c \in Captures, NEW w \in Stoppers, AlreadyStopped(c, w) PROVE ReasonsInv'
  BY <1>23 DEF AlreadyStopped, Move
<1>24. ASSUME NEW c \in Captures, NEW w \in Stoppers, WaitDone(c, w) PROVE ReasonsInv'
  BY <1>24 DEF WaitDone, Move, DoneClosed
<1>25. ASSUME NEW c \in Captures, NEW w \in Stoppers, WaitTimesOut(c, w) PROVE ReasonsInv'
  BY <1>25 DEF WaitTimesOut, Move, Enter, EndSsh
<1>26. ASSUME NEW c \in Captures, NEW w \in Stoppers, FinalizeReturns(c, w) PROVE ReasonsInv'
  BY <1>26 DEF FinalizeReturns, Move
<1>27. QED
  BY ONLY Next, <1>0, <1>1, <1>2, <1>3, <1>4, <1>5, <1>6, <1>7, <1>8, <1>9, <1>10, <1>11, <1>12,
     <1>13, <1>14, <1>15, <1>16, <1>17, <1>18, <1>19, <1>20, <1>21, <1>22, <1>23, <1>24, <1>25,
     <1>26
     DEF Next, StartStep, LaunchStep, StopStep, WaitStep, FinalizeStep, PumpStep

(* The life of every capture's files, for any number of captures.           *)
THEOREM FilesInvariant == Spec => []FilesInv
<1>1. Init => FilesInv
  BY DEF Init, FilesInv, FilesOf, Started, DoneClosed, Stoppers
<1>2. TypeOK /\ FilesInv /\ [Next]_vars => FilesInv'
  <2>1. CASE UNCHANGED vars
    BY <2>1 DEF FilesInv, FilesOf, Started, DoneClosed, vars, slotVars, stopVars, fileVars
  <2>2. QED
    BY <2>1, FilesStep
<1>3. QED
  BY <1>1, <1>2, TypeCorrect, PTL DEF Spec

(* Why every capture ended, for any number of captures.                     *)
THEOREM ReasonsInvariant == Spec => []ReasonsInv
<1>1. Init => ReasonsInv
  BY DEF Init, ReasonsInv, ReasonsOf, Remote, Stoppers
<1>2. TypeOK /\ ReasonsInv /\ [Next]_vars => ReasonsInv'
  <2>1. CASE UNCHANGED vars
    BY <2>1 DEF ReasonsInv, ReasonsOf, Remote, vars, slotVars, stopVars, fileVars
  <2>2. QED
    BY <2>1, ReasonsStep
<1>3. QED
  BY <1>1, <1>2, TypeCorrect, PTL DEF Spec

(* A started capture is running or has its sidecar until it is deleted.     *)
THEOREM NoStatusGapHolds == Spec => []NoStatusGap
<1>1. TypeOK /\ FilesInv => NoStatusGap
  BY DEF TypeOK, FilesInv, FilesOf, Started, NoStatusGap
<1>2. QED
  BY <1>1, TypeCorrect, FilesInvariant, PTL

(* Deleting a running capture finds the sidecar that finalize wrote.        *)
THEOREM DeleteFindsSidecarHolds == Spec => []DeleteFindsSidecar
<1>1. FilesInv => DeleteFindsSidecar
  BY DEF FilesInv, FilesOf, DeleteFindsSidecar
<1>2. QED
  BY <1>1, FilesInvariant, PTL

(* No late step of finalize brings the files of a deleted capture back.     *)
THEOREM DeletedStaysDeletedHolds == Spec => []DeletedStaysDeleted
<1>1. FilesInv => DeletedStaysDeleted
  BY DEF FilesInv, FilesOf, DeletedStaysDeleted
<1>2. QED
  BY <1>1, FilesInvariant, PTL

(* Every sidecar names the true reason, whoever raced to stop the capture.  *)
THEOREM SidecarReasonHolds == Spec => []SidecarReason
<1>1. TypeOK /\ FilesInv /\ ReasonsInv => SidecarReason
  BY DEF TypeOK, FilesInv, FilesOf, ReasonsInv, ReasonsOf, Remote, SidecarReason
<1>2. QED
  BY <1>1, TypeCorrect, FilesInvariant, ReasonsInvariant, PTL

-----------------------------------------------------------------------------
(* The slots in use are no more than the reservations and the sessions.     *)
LEMMA InUseBound ==
  ASSUME TypeOK, SlotInv
  PROVE  Cardinality(Slots!InUse) <= Cardinality(sessions) + Cardinality(starting)
<1> USE DEF SlotInv
<1> DEFINE ran == {VmOf[c] : c \in sessions}
           f == [c \in sessions |-> VmOf[c]]
<1>1. IsFiniteSet(ran) /\ Cardinality(ran) <= Cardinality(sessions)
  <2>1. f \in Surjection(sessions, ran)
    BY DEF Surjection
  <2>2. QED
    BY <2>1, FS_Surjection
<1>2. Slots!InUse = starting \cup ran
  BY CaptureAssumption DEF TypeOK, Slots!InUse, slotOf, Running
<1>3. /\ Cardinality(starting \cup ran) <= Cardinality(starting) + Cardinality(ran)
      /\ Cardinality(starting \cup ran) \in Nat
  <2>1. /\ Cardinality(starting \cup ran) =
             Cardinality(starting) + Cardinality(ran) - Cardinality(starting \cap ran)
    BY <1>1, FS_Union
  <2>2. /\ Cardinality(starting) \in Nat /\ Cardinality(ran) \in Nat
        /\ Cardinality(starting \cap ran) \in Nat /\ Cardinality(starting \cup ran) \in Nat
    BY <1>1, FS_CardinalityType, FS_Intersection, FS_Union
  <2>3. QED
    BY <2>1, <2>2
<1>4. Cardinality(sessions) \in Nat /\ Cardinality(starting) \in Nat /\ Cardinality(ran) \in Nat
  BY <1>1, FS_CardinalityType
<1> HIDE DEF ran
<1>5. Cardinality(Slots!InUse) = Cardinality(starting \cup ran)
  BY <1>2, Zenon
<1>6. QED
  BY ONLY <1>1, <1>3, <1>4, <1>5

\* Finitely many VMs are in use.
LEMMA InUseFinite == ASSUME TypeOK, SlotInv PROVE IsFiniteSet(Slots!InUse)
<1> DEFINE ran == {VmOf[c] : c \in sessions}
           f == [c \in sessions |-> VmOf[c]]
<1>1. f \in Surjection(sessions, ran)
  BY DEF Surjection
<1>2. IsFiniteSet(ran)
  BY <1>1, FS_Surjection DEF SlotInv
<1>3. Slots!InUse = starting \cup ran
  BY CaptureAssumption DEF TypeOK, Slots!InUse, slotOf, Running
<1>4. QED
  BY <1>2, <1>3, FS_Union DEF SlotInv

(* Every step of the manager is a step of the slot table or none.           *)
LEMMA SlotStep ==
  ASSUME TypeOK, SlotInv, SlotInv', Next
  PROVE  Slots!SlotNext \/ UNCHANGED slotOf
<1> USE CaptureAssumption
<1> USE DEF slotOf, Running, Slots!Move, Slots!SlotNext
<1>1. ASSUME NEW v \in VMs, Reserve(v) PROVE Slots!Take(v)
  <2>1. Cardinality(Slots!InUse) < Cap
    <3>1. Cardinality(Slots!InUse) \in Nat
      <4>1. Slots!InUse \in SUBSET VMs
        BY DEF Slots!InUse
      <4>2. IsFiniteSet(Slots!InUse)
        BY InUseFinite
      <4>3. QED
        BY <4>2, FS_CardinalityType
    <3>2. Cardinality(sessions) \in Nat /\ Cardinality(starting) \in Nat
      BY FS_CardinalityType DEF SlotInv
    <3>3. QED
      BY <1>1, <3>1, <3>2, InUseBound DEF Reserve, SlotFree
  <2>2. QED
    <3>1. slotOf[v] = "idle" /\ starting' = starting \cup {v} /\ UNCHANGED sessions
      BY <1>1 DEF Reserve
    <3>2. slotOf' = [slotOf EXCEPT ![v] = "starting"]
      BY <3>1
    <3>3. QED
      <4>1. Slots!Cardinality(Slots!InUse) = Cardinality(Slots!InUse)
        BY ONLY TRUE DEF Slots!Cardinality, Cardinality
      <4>2. QED
        BY ONLY <2>1, <3>1, <3>2, <4>1 DEF Slots!Take, Slots!Move
<1>2. ASSUME NEW v \in VMs, StartFails(v) PROVE Slots!GiveBack(v)
  <2>1. v \in starting /\ ~ Running(v) /\ starting' = starting \ {v} /\ UNCHANGED sessions
    BY <1>2 DEF StartFails, SlotInv, OnePerVM
  <2>2. slotOf' = [slotOf EXCEPT ![v] = "idle"]
    BY <2>1
  <2>3. QED
    BY <1>2, <2>1, <2>2 DEF Slots!GiveBack
<1>3. ASSUME NEW c \in Captures, OpenFile(c) PROVE UNCHANGED slotOf
  BY <1>3 DEF OpenFile
<1>4. ASSUME NEW c \in Captures, SessionFails(c) PROVE Slots!GiveBack(VmOf[c])
  BY <1>4 DEF SessionFails, Slots!GiveBack, SlotInv, OnePerVM
<1>5. ASSUME NEW c \in Captures, Register(c) PROVE Slots!Run(VmOf[c])
  <2>1. VmOf[c] \in starting /\ sessions' = sessions \cup {c} /\ starting' = starting \ {VmOf[c]}
    BY <1>5 DEF Register, SlotInv, RecheckNeverFires, TypeOK
  <2>2. QED
    BY <2>1 DEF Slots!Run, SlotInv, OnePerVM
<1>6. ASSUME NEW c \in Captures, Unregister(c) PROVE Slots!End(VmOf[c]) \/ UNCHANGED slotOf
  <2>1. CASE c \in sessions
    BY <1>6, <2>1 DEF Unregister, Slots!End, SlotInv, OnePerVM
  <2>2. CASE c \notin sessions
    BY <1>6, <2>2 DEF Unregister
  <2>3. QED
    BY <2>1, <2>2
<1>7. ASSUME NEW c \in Captures, LaunchStep(c) PROVE UNCHANGED slotOf
  BY <1>7 DEF LaunchStep, ArmTimer, LaunchPump
<1>8. ASSUME UNCHANGED slotVars PROVE UNCHANGED slotOf
  BY <1>8 DEF slotVars
<1>9. QED
  BY <1>1, <1>2, <1>3, <1>4, <1>5, <1>6, <1>7, <1>8, OtherStepsKeepSlots
     DEF Next, StartStep, FinalizeStep, Stoppers

(* The manager with all its threads does to the slots only what the         *)
(* abstract table allows, for every limit and any number of VMs.            *)
THEOREM ImplementsSlotTable == Spec => Slots!SlotInit /\ [][Slots!SlotNext]_slotOf
<1>1. Init => Slots!SlotInit
  BY DEF Init, Slots!SlotInit, slotOf, Running
<1>2. TypeOK /\ SlotInv /\ SlotInv' /\ [Next]_vars => [Slots!SlotNext]_slotOf
  <2>1. CASE UNCHANGED vars
    BY <2>1 DEF vars, slotVars, slotOf, Running
  <2>2. QED
    BY <2>1, SlotStep
<1>3. QED
  BY <1>1, <1>2, TypeCorrect, SlotInvariant, PTL DEF Spec

=============================================================================
