SPECIFICATION Spec
CONSTANTS
    Promoters = {p1}
    Readers = {}
    r1 = r1  r2 = r2
    Resources = {r1}
    family1 = family1  family2 = family2
    Families = {family1}
    FamilyOf <- OneFamily
    Names = {stable}
    Digests = {d1}
    Asks <- BySnapshot
    MaxVersion = 1
    MaxFaults = 0
PROPERTIES
    OnlyPublishedPromoted
