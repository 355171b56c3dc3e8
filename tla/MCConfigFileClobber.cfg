\* The version check and the rename are not atomic.
CONSTANTS
    Editors = {e1, e2}
    NoInode = NoInode
    First = First
    Mask = Mask
    Empty = Empty
    Torn = Torn
    NoConfig = NoConfig
    UseIfMatch = {e1, e2}
SPECIFICATION Spec
INVARIANT FirstWriterWins
CHECK_DEADLOCK FALSE
