\* The reverse direction of a relationship of a local model.
SPECIFICATION Spec
CONSTANTS
    p1 = p1
    p2 = p2
    q1 = q1
    q2 = q2
    r1 = r1
    PKs = {p1, p2, q1, q2, r1}
    KeyType <- Types
    Models = {"a", "b", "c"}
    Relationships <- AllRels
    JoinRows <- AllRows
    Responses <- AnyResponses
    Contents = {c1}
    NoPk = NoPk
    NoneKey = NoneKey
    NoDict = NoDict
    Unasked = Unasked
    MaxItems = 2
    Modes = {"sync"}
CHECK_DEADLOCK FALSE
INVARIANT LocalIsTakenFromBuildly
