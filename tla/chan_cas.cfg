SPECIFICATION FairSpec
CONSTANTS
    Promoters = {p1, p2}
    Readers = {}
    r1 = r1  r2 = r2
    Resources = {r1, r2}
    family1 = family1  family2 = family2
    Families = {family1}
    FamilyOf <- OneFamily
    Names = {stable}
    Digests = {d1}
    Asks <- ByIdentity
    MaxVersion = 2
    MaxFaults = 1
INVARIANTS
    Consistent
    PromotedIsMine
    StaleHasReason
PROPERTIES
    AppendOnly
    ChannelIsRegister
    SomebodyAdvances
