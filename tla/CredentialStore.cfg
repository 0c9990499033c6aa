\* Two goroutines, every keychain call may fail, crashes at any point, and an
\* entry limit of one so that the limit is met.
CONSTANTS
    Clients = {c1, c2}
    Names = {n1, n2}
    Values = {v1, v2}
    None = None
    Unknown = Unknown
    MaxEntries = 1
SPECIFICATION FairSpec
INVARIANTS TypeOK ListingMatchesSecrets
PROPERTIES IsAtomicMap CallsReturn
