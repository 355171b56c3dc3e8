\* Two nodes on one store or one on its own, a cron schedule or an interval.
CONSTANTS
    Nodes = {n1, n2}
    Period = 2
    CronTtl = 3
    MaxLag = 2
    MaxEdits = 1
    MaxRestarts = 1
    MaxTime = 5
SPECIFICATION Spec
SYMMETRY Symmetry
INVARIANTS TypeOK FiredOnce NoOverlap NothingLost
CHECK_DEADLOCK FALSE
