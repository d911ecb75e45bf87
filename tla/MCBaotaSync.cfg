\* One domain, two pods that may sync at once.
CONSTANTS
    d1 = d1  d2 = d2  leader = leader  other = other
    Domains = {d1}
    Pods = {leader, other}
    Leader = leader
    Attempts = 2  DeleteRetries = 1
    MaxFaults = 2
    SyncEnabled = TRUE
    EnglishPanel = FALSE
SPECIFICATION FairSpec
INVARIANTS ReportTruthful NoResurrection
PROPERTIES Published ReportSettles
