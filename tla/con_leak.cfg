SPECIFICATION Spec
CONSTANTS
    left = left
    right = right
    Blocks <- TwoBlocks
    Contents <- TwoContents
    Threads = {t1}
    Resources = {r1}
    MaxCalls = 2
    MaxFaults = 1
INVARIANT EveryExitReleases
CHECK_DEADLOCK FALSE
