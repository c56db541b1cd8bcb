\* Requests for a file that is missing, with a 404 page.
CONSTANTS
    page = page
    lost = lost
    c1 = c1
    Paths = {page, lost}
    Dirs = {}
    MaxVersion = 2
    LenOf <- MCLenOf
    MtimeOf <- MCMtimeOf
    U64 = 8
    Clients = {c1}
    Asking = {page}
    NotFoundPath = lost
    Encodings = {"identity", "br"}
    EncodedLen <- MCEncodedLen
    HashedAtEnd = {}
    Unhashed <- MCUnhashed
    EtagCapacity = 1
    TicksPerSec = 2
    Times = {1, 4}
    PartEstimate = 1
    RangeHeaders <- MCRangeHeaders
SPECIFICATION Spec
INVARIANTS
    MissingDoesNotSucceed
