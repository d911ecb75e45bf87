\* Three pods that may start before or after the setup, four faults.
CONSTANTS
    p1 = p1  p2 = p2  p3 = p3
    Pods = {p1, p2, p3}
    RetryPeriod = 1  RenewDeadline = 4  LeaseDuration = 6
    MaxFaults = 4  ClientMayFail = TRUE
    ConfiguredAtBoot = {TRUE, FALSE}
SPECIFICATION FairSpec
INVARIANTS TypeOK OverlapOnlyWhileLeaving
PROPERTIES JobsResume
CHECK_DEADLOCK FALSE
