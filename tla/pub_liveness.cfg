SPECIFICATION FairSpec
CONSTANTS
    Publishers = {p1, p2}
    Sweepers = {s1}
    r1 = r1  r2 = r2  c1 = c1  c2 = c2
    plain = plain  signed = signed  malformed = malformed
    Resources = {r1, r2}
    Contents = {c1}
    Documents = {plain, signed, malformed}
    Rejected = {malformed}
    WithProvenance = {signed}
    Requests <- TwoIdentities
    Characters = {"a", "1", ":", "/", "@", "#", "|"}
    Unreserved = {"a", "1"}
    Parts <- JoinedParts
    Numerals <- VersionNumerals
    IdentityOf <- JoinedIdentities
    PageLimit = 1
    MaxAttempts = 3
    MaxFaults = 2
INVARIANTS
    LookupsFindTheirOwn
PROPERTIES
    ObjectsAccountedFor
    RetriesSettle
