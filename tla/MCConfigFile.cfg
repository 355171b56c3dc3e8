\* Three editors whose PUTs overlap or not, and a crash at any step.
CONSTANTS
    Editors = {e1, e2, e3}
    NoInode = NoInode
    First = First
    Mask = Mask
    Empty = Empty
    Torn = Torn
    NoConfig = NoConfig
    UseIfMatch = {e1, e2}
SPECIFICATION Spec
SYMMETRY Symmetry
INVARIANTS TypeOK NeverTorn NeverMissing NoClobber MaskNeverStored
PROPERTY SecretKept
CHECK_DEADLOCK FALSE
