\* Each kind of body, polled until its end or an error.
CONSTANTS
    Parts = 3
    HeaderLen <- MCHeaderLen
    PartLen <- MCPartLen
    TrailerLen = 3
    Rest <- MCRest
    OnceLens = {0, 3}
    Streams <- MCStreams
    ChunkSize = 3
    U64 = 32
    PollsAfterError = FALSE
SPECIFICATION Spec
INVARIANTS
    TypeOK
    LengthKept
PROPERTIES
    NothingAfterEnd
    ImplementsContract
    EventuallyCompletes
\* A body that was dropped is never polled again.
CHECK_DEADLOCK FALSE
