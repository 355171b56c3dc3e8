\* Four requests, nested two deep, on two permits; one is served by a guest and
\* one by a pipeline with a tee branch.
CONSTANTS
    Requests = {r1, r2, r3, r4}
    Guests = {r1}
    Tees = {r2}
    Cap = 2
    MaxDepth = 1
    Threshold = 2
    Window = 1
    Cooldown = 2
    MaxTime = 4
SPECIFICATION FairSpec
INVARIANTS TypeOK PermitsConserved OpenSpellIsBounded
PROPERTIES TripIsDeserved AdmittedEnds
CHECK_DEADLOCK FALSE
