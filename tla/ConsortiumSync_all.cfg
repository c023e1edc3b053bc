\* Custody POSTs of two workers while an administrator edits the consortium.
SPECIFICATION Spec
CONSTANTS
    o1 = o1
    o2 = o2
    o3 = o3
    Workers = {w1, w2}
    Shipments = {s1, s2}
    Orgs = {o1, o2, o3}
    NoOrg = NoOrg
    NoShipment = NoShipment
    NullList = NullList
    NoRow = NoRow
    NoCopy = NoCopy
    MaxRows = 2
    AdminLists <- SomeLists
INVARIANT TypeOK
INVARIANT NoRepeats
SYMMETRY Symmetry
INVARIANT AckedShared
INVARIANT OnePerShipment
PROPERTY ImplementsRegistry
CONSTRAINT Bound
