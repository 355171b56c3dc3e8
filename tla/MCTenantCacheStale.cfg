\* A load in flight across the purge caches the old config.
CONSTANTS
    Requests = {r1, r2}
    Editors = {e1}
    Reloads = {}
    None = None
    Droppable = {}
    MaxInfra = 2
SPECIFICATION Spec
INVARIANT FreshAfterPut
CHECK_DEADLOCK FALSE
