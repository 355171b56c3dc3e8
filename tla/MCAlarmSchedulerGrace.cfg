\* The code's grace and claim times, no fault.
CONSTANTS
    cron = cron
    every = every
    CronMounts = {cron}
    IntervalMounts = {every}
    Period <- Periods
    Ttl <- Ttls
    Grace = 5
    MaxFaults = 0
    MaxTime = 9
SPECIFICATION Spec
INVARIANT FiredOnce
CHECK_DEADLOCK FALSE
