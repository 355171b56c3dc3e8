\* A save whose temporary file was renamed away removes the config.
CONSTANTS
    Editors = {e1, e2}
    NoInode = NoInode
    First = First
    Mask = Mask
    Empty = Empty
    Torn = Torn
    NoConfig = NoConfig
    UseIfMatch = {}
SPECIFICATION Spec
INVARIANT AlwaysThere
CHECK_DEADLOCK FALSE
