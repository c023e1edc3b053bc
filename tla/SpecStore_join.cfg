\* Joins over two services; rows are deleted and aggregated under way.
SPECIFICATION FairSpec
CONSTANTS
    Workers = {w1, w2}
    Names = {n1, n2}
    Endpoints = {e1}
    MaxModules = 2
    NoSpec = NoSpec
    OtherDoc = OtherDoc
    OtherServices = {}
    NullServices = {e1}
    NoRow = NoRow
    NoCopy = NoCopy
    Sent = {NoSpec}
    Ops = {"sync", "async", "delete", "aggregate"}
    AllowAsyncUnsafe = {w1}
INVARIANT CacheFollowsReads
PROPERTY RequestsEnd
