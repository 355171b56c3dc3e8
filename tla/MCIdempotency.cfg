\* Three keyed requests over two slots and a store capped at one entry.
CONSTANTS
    Requests = {r1, r2, r3}
    Slots = {s1, s2}
    Payloads = {p1, p2}
    NoHash = NoHash
    NoRequest = NoRequest
    NoSlot = NoSlot
    Droppable = {r1, r2, r3}
    Window = 1
    MaxEntries = 1
    SweepEvery = 3
    MaxTime = 2
SPECIFICATION Spec
SYMMETRY Symmetry
INVARIANTS TypeOK SingleExecution InFlightKept InFlightIsOwned ReplayIsOriginal
PROPERTIES ReExecutionOnlyAfterLoss CapHolds
CHECK_DEADLOCK FALSE
