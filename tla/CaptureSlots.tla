---------------------------- MODULE CaptureSlots ----------------------------
(***************************************************************************)
(* What the capture manager promises its clients, with no threads in it: a *)
(* table with one slot per VM and a global limit on slots in use.  A slot  *)
(* is reserved, then either given back or turned into a running capture,   *)
(* and a running capture ends.                                             *)
(***************************************************************************)
EXTENDS Naturals, FiniteSets

CONSTANTS VMs, Cap

VARIABLE slot

InUse == {v \in VMs : slot[v] # "idle"}

SlotInit == slot = [v \in VMs |-> "idle"]

Move(v, from, to) ==
    /\ slot[v] = from
    /\ slot' = [slot EXCEPT ![v] = to]

Take(v) == Cardinality(InUse) < Cap /\ Move(v, "idle", "starting")
GiveBack(v) == Move(v, "starting", "idle")
Run(v) == Move(v, "starting", "running")
End(v) == Move(v, "running", "idle")

SlotNext == \E v \in VMs : Take(v) \/ GiveBack(v) \/ Run(v) \/ End(v)

SlotFairness == \A v \in VMs : WF_slot(GiveBack(v) \/ Run(v)) /\ WF_slot(End(v))

SlotSpec == SlotInit /\ [][SlotNext]_slot /\ SlotFairness
=============================================================================
