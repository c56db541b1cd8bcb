\* Safety.  Two concurrent calls; "page" goes through three versions, "dir" is a
\* directory whose name has a compressible extension.
CONSTANTS
    page = page
    dir  = dir
    c1 = c1
    c2 = c2
    Paths = {page, dir}
    Dirs = {dir}
    MaxVersion = 3
    LenOf <- MCLenOf
    MtimeOf <- MCMtimeOf
    Calls = {c1, c2}
    Supported = {page, dir}
    MaxFileSize = 2
    Capacity = 2
    CompressedLen <- MCCompressedLen
SPECIFICATION Spec
SYMMETRY CallSymmetry
INVARIANTS
    TypeOK
    FreshContent
    ErrorsAreHonest
    SizeLimitHolds
PROPERTIES
    ImplementsContract
    FullDiskDegrades
