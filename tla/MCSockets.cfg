\* Two upgrades for one place, one task, room for one item.
CONSTANTS
    Sockets = {s1, s2}
    Tasks = {t1}
    Cap = 1
    Queue = 1
    MaxInFlight = 1
SPECIFICATION Spec
SYMMETRY Symmetry
INVARIANTS TypeOK Ceiling
CHECK_DEADLOCK FALSE
