\* A panel that answers in English.
CONSTANTS
    d1 = d1  d2 = d2  leader = leader  other = other
    Domains = {d1}
    Pods = {leader}
    Leader = leader
    Attempts = 2  DeleteRetries = 1
    MaxFaults = 2
    SyncEnabled = TRUE
    EnglishPanel = TRUE
SPECIFICATION Spec
PROPERTIES ExistsMeansExists
