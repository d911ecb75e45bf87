\* A pod is told to stop while it leads.
CONSTANTS
    p1 = p1  p2 = p2  p3 = p3
    Pods = {p1, p2}
    RetryPeriod = 1  RenewDeadline = 4  LeaseDuration = 6
    MaxFaults = 1  ClientMayFail = FALSE
    ConfiguredAtBoot = {TRUE}
SPECIFICATION Spec
INVARIANTS OnePodRunsJobs
