SPECIFICATION StoreFairSpec
CONSTANTS
    Promoters = {p1, p2}
    Publishers = {p1}
    Readers = {}
    r1 = r1
    Resources = {r1}
    family1 = family1
    Families = {family1}
    FamilyOf <- OneFamily
    Names = {stable}
    Digests = {d1}
    Asks <- BySnapshot
    MaxVersion = 2
    MaxFaults = 2
    MaxLapses = 1
INVARIANTS
    StoreConsistent
    ReceiptIsWhole
    RefusalsAreTrue
PROPERTIES
    PromotesOwnContent
    StoreIsChannels
    RetriesReachTheChannel
