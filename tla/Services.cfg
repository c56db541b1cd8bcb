\* Two requests on one connection, four configurations, a tree that may change.
CONSTANTS
    r1 = r1
    r2 = r2
    c1 = c1
    Requests = {r1, r2}
    Urls <- MCUrls
    Headers <- MCHeaders
    Settings <- MCSettings
    MayHold <- MCMayHold
    ExtensionOf <- MCExtensionOf
    KnownTypes <- MCKnownTypes
    DefaultType = "application/octet-stream"
    MaxChanges = 1
    Connections = {c1}
    Permits = 1
SYMMETRY RequestSymmetry
SPECIFICATION Spec
INVARIANTS
    TypeOK
    CodingSuits
    SearchIsHonest
    SuccessIsWhatWasAsked
    InnerIsReady
    InnerGetsTheRest
    PermitsComeBack
PROPERTIES
    SearchShrinks
