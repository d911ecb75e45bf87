\* Two pods, a save and two failures or restarts; two orders to a Linux client and a
\* mishap; two workers with one rule and two upsets.
CONSTANTS
    p1 = p1  p2 = p2  f1 = f1
    Pods = {p1, p2}  Fields = {f1}  Secrets = {}  MaxSaves = 1  MaxFaults = 2
    d1 = d1  d2 = d2  a1 = a1  a2 = a2
    DeviceConns = {d1, d2}  AdminConns = {a1, a2}  NoConn = NoConn
    MaxOrders = 2  Systems = {"linux"}  MaxMishaps = 1
    w1 = w1  w2 = w2  r1 = r1
    Workers = {w1, w2}  Rules = {r1}
    ForMinutes = 2  ReportMinute = 2  MaxClock = 5  MaxUpsets = 2
SPECIFICATION ServerSpec
INVARIANTS ServerTypeOK CompletedWasTried RevocationStands FiringAsSaid FiringEarned DailyOnce
PROPERTIES CatchesUp CommandArrives
CHECK_DEADLOCK FALSE
