\* Three VMs compete for two slots, one of them for a capture with every stopper: all
\* races of start, stop, delete, timer and pump.
CONSTANTS
    v1 = v1  v2 = v2  v3 = v3  a1 = a1
    VMs = {v1, v2, v3}
    Captures = {a1}
    VmOf <- MCVmOf
    Cap = 2
    Handlers = {"stop", "delete"}
SPECIFICATION FairSpec
INVARIANTS SlotBound OnePerVM NoStatusGap DeleteFindsSidecar DeletedStaysDeleted SidecarReason
PROPERTIES ImplementsSlots
CHECK_DEADLOCK FALSE
