\* A missing file, and a page for that with a Brotli sibling.
CONSTANTS
    r1 = r1
    r2 = r2
    c1 = c1
    Requests = {r1}
    Urls <- MCUrls
    Headers <- MCHeaders
    Settings <- PageOnly
    MayHold <- PageWithSibling
    ExtensionOf <- MCExtensionOf
    KnownTypes <- MCKnownTypes
    DefaultType = "application/octet-stream"
    MaxChanges = 1
    Connections = {c1}
    Permits = 1
SPECIFICATION Spec
INVARIANT PageKeepsItsType
