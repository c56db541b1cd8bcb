\* Two clients of one path with two versions.
CONSTANTS
    page = page
    c1 = c1
    c2 = c2
    Paths = {page}
    Dirs = {}
    MaxVersion = 2
    LenOf <- MCLenOf
    MtimeOf <- MCMtimeOf
    ChunkSize = 2
    Clients = {c1, c2}
    MaxItemWeight = 3
    MaxFaults = 1
SPECIFICATION Spec
INVARIANTS
    TypeOK
    BytesInPlace
PROPERTIES
    FailuresHaveACause
    EventuallyWhole
