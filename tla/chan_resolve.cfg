SPECIFICATION Spec
CONSTANTS
    Promoters = {p1}
    Readers = {q1}
    r1 = r1  r2 = r2
    Resources = {r1, r2}
    family1 = family1  family2 = family2
    Families = {family1, family2}
    FamilyOf <- TwoFamilies
    Names = {stable}
    Digests = {d1}
    Asks <- AllAsks
    MaxVersion = 2
    MaxFaults = 1
INVARIANTS
    ResolutionConsistent

    
