\* Two pods that save different fields, one failure or restart.
CONSTANTS
    p1 = p1  p2 = p2  f = f  g = g
    Pods = {p1, p2}
    Fields = {f, g}  Secrets = {g}
    MaxSaves = 2  MaxFaults = 1
SPECIFICATION SmallSpec
SYMMETRY PodSymmetry
VIEW LiveView
INVARIANTS SyncedIsCurrent
PROPERTIES OthersKept
CHECK_DEADLOCK FALSE
