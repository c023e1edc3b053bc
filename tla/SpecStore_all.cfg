\* Every kind of request at once, one service name, two endpoints, two rows.
SPECIFICATION Spec
CONSTANTS
    Workers = {w1, w2}
    Names = {n1}
    Endpoints = {e1, e2}
    MaxModules = 2
    NoSpec = NoSpec
    OtherDoc = OtherDoc
    OtherServices = {e1, e2}
    NullServices = {e2}
    NoRow = NoRow
    NoCopy = NoCopy
    Sent = {e1, OtherDoc, NoSpec}
    Ops = {"sync", "async", "refresh", "patch", "delete", "aggregate"}
    AllowAsyncUnsafe = {w1, w2}
SYMMETRY Symmetry
INVARIANT TypeOK
INVARIANT PendingSavesAgree
PROPERTY OnlyEditOrNameMakesStale
PROPERTY StoredSpecStays
