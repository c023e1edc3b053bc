\* An asynchronous request for a service whose specification is stored.
SPECIFICATION Spec
CONSTANTS
    Workers = {w1}
    Names = {n1}
    Endpoints = {e1}
    MaxModules = 1
    NoSpec = NoSpec
    OtherDoc = OtherDoc
    OtherServices = {}
    NullServices = {}
    NoRow = NoRow
    NoCopy = NoCopy
    Sent = {NoSpec}
    Ops = {"sync", "async"}
    AllowAsyncUnsafe = {w1}
INVARIANT StoredSpecServes
