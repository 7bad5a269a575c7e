\* A process that logs, two that rotate and one that queries: rotations that die,
\* that overlap, that meet a full disk.
SPECIFICATION Spec
CONSTANTS
    l1 = l1
    r1 = r1
    r2 = r2
    q1 = q1
    Loggers = {l1}
    Rotators = {r1, r2}
    Readers = {q1}
    Slots = 1
    Offset = 0
    MaxAge = 2
    DeleteAge = 2
    Bounds = {2}
    MaxStall = 1
    MaxTime = 3
    MaxEvents = 2
    Environments = {{"overlap"}, {"crash"}, {"crash", "full"}}
SYMMETRY Symmetry
INVARIANTS
    QueryComplete
    NoEventLost
CHECK_DEADLOCK FALSE
