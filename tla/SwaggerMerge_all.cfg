\* Up to four services with any of five documents, merged in any order.
SPECIFICATION Spec
CONSTANTS
    a = a
    b = b
    c = c
    z = z
    Letters = {a, b, c, z, Dot}
    Apis <- SomeApis
    Buildly <- Z
    Dot = Dot
    Documents <- SomeDocuments
    NoId = NoId
    Null = Null
    OwnDocument <- SomeOwn
INVARIANT TypeOK
INVARIANT ReferencesResolve
INVARIANT OperationsDistinct
\* The request ends.
CHECK_DEADLOCK FALSE
