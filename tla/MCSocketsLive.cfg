\* One socket, three tasks, room for a close and a frame behind it.
CONSTANTS
    Sockets = {s1}
    Tasks = {t1, t2, t3}
    Cap = 1
    Queue = 2
    MaxInFlight = 2
SPECIFICATION FairSpec
INVARIANT NothingAfterClose
PROPERTIES ClosedEnds GoneIsReleased
CHECK_DEADLOCK FALSE
