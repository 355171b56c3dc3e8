\* Three requests race with a PUT and a reload; each may fail or be dropped.
CONSTANTS
    Requests = {r1, r2, r3}
    Editors = {e1}
    Reloads = {l1}
    None = None
    Droppable = {r1, r2, r3, e1, l1}
    MaxInfra = 2
SPECIFICATION Spec
SYMMETRY Symmetry
INVARIANTS TypeOK LoadsAreShared FreshUnlessCrossed  GuardsDoNotAccumulate
CHECK_DEADLOCK FALSE
