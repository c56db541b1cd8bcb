\* The middleware before an application with a route below a file's path.
CONSTANTS
    r1 = r1
    r2 = r2
    c1 = c1
    Requests = {r1}
    Urls <- BelowUrls
    Headers <- PlainHeaders
    Settings <- LayerOnly
    MayHold <- FilesOnly
    ExtensionOf <- MCExtensionOf
    KnownTypes <- MCKnownTypes
    DefaultType = "application/octet-stream"
    MaxChanges = 1
    Connections = {c1}
    Permits = 1
SPECIFICATION Spec
INVARIANT UnmatchedIsDelegated
