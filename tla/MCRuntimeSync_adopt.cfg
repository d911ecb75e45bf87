\* A save before a pod's first tick.
CONSTANTS
    p1 = p1  p2 = p2  f = f  g = g
    Pods = {p1, p2}
    Fields = {f}  Secrets = {}
    MaxSaves = 1  MaxFaults = 0
SPECIFICATION FairSpec
PROPERTIES AllAgree
CHECK_DEADLOCK FALSE
