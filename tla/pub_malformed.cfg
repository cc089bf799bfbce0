SPECIFICATION Spec
CONSTANTS
    Publishers = {p1}
    Sweepers = {s1}
    r1 = r1  r2 = r2  c1 = c1  c2 = c2
    plain = plain  signed = signed  malformed = malformed
    Resources = {r1}
    Contents = {c1}
    Documents = {plain, signed, malformed}
    Rejected = {malformed}
    WithProvenance = {signed}
    Requests <- MalformedArtifact
    Characters = {"a", "1", ":", "/", "@", "#", "|"}
    Unreserved = {"a", "1"}
    Parts <- JoinedParts
    Numerals <- VersionNumerals
    IdentityOf <- JoinedIdentities
    PageLimit = 1
    MaxAttempts = 1
    MaxFaults = 0
INVARIANTS
    PartialPublicationHasEvidence
