SPECIFICATION Spec
CONSTANTS
    left = left
    right = right
    Blocks <- TwoBlocks
    Contents <- ThreeContents
    Threads = {t1, t2}
    Resources = {r1}
    MaxCalls = 2
    MaxFaults = 1
INVARIANTS Consistent  ReadIsVerified RangeIsWhole FindsPublished
SYMMETRY Interchangeable
CHECK_DEADLOCK FALSE
