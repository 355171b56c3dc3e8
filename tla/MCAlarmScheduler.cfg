\* The code's grace and claim times.
CONSTANTS
    cron = cron
    every = every
    CronMounts = {cron}
    IntervalMounts = {every}
    Period <- Periods
    Ttl <- Ttls
    Grace = 5
    MaxFaults = 2
    MaxTime = 8
SPECIFICATION Spec
INVARIANTS TypeOK IntervalFiredOnce ChainArmed
CHECK_DEADLOCK FALSE
