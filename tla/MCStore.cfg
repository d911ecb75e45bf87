\* Three clients, one on a pod without the cache wrapper; the store and Redis fail.
CONSTANTS
    c1 = c1  c2 = c2  c3 = c3
    Clients <- MCClients
    Threads <- MCClients
    Values <- MCValues
    Empty <- MCEmpty
    Bypass = {c3}
    Big <- MCBig
    TTL = 1  GetTime = 0  SetTime = 0
    Faulty = TRUE
    MaxIPs = 2  MaxRequests = 2
SPECIFICATION StoreSpec
SYMMETRY Symmetry
VIEW LiveView
INVARIANTS QuietThenCoherent StaleOnlyAfterRace SessionsKept
