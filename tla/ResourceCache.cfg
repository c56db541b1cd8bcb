\* Two requests, one path with two versions, clients with and without Brotli.
CONSTANTS
    page = page
    r1 = r1
    r2 = r2
    Paths = {page}
    Dirs = {}
    MaxVersion = 2
    LenOf <- MCLenOf
    MtimeOf <- MCMtimeOf
    Requests = {r1, r2}
    Encodings = {"identity", "br"}
    Preferences = {"plain", "brotli"}
    Accepts <- MCAccepts
    EncodedLen <- MCEncodedLen
    MaxItemWeight = 2
    ExpireAfter = 1
    MaxFill = 1
SPECIFICATION Spec
INVARIANTS
    TypeOK
    EncodingAccepted
PROPERTIES
    BoundedStaleness
    CleanupSparesFresh
    EventuallyCurrent
