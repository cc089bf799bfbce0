SPECIFICATION Spec
CONSTANTS
    Publishers = {p1}
    Readers = {q1}
    Resources = {r1, r2}
    family1 = family1
    Families = {family1}
    FamilyOf <- OneFamily
    Modes = {"exact", "latest", "list"}
    MaxOrder = 0
    MaxTime = 1
    MaxLimit = 2
    MaxFaults = 1
INVARIANTS
    Consistent
    LatestNeverGoesBack
    PagesSeeReceipts
    ExactIsStable
SYMMETRY Interchangeable
