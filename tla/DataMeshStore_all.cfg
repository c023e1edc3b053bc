\* Every kind of request of two workers.
SPECIFICATION Spec
CONSTANTS
    m1 = m1
    m2 = m2
    Workers = {w1, w2}
    Models = {m1, m2}
    Pairs <- BothPairs
    Links = {l1, l2}
    Orgs = {g1, g2}
    EmptyKey = EmptyKey
    LoadKey = LoadKey
    MaxRels = 2
    MaxJoins = 2
    NoRow = NoRow
    NoOrg = NoOrg
    NoLink = NoLink
SYMMETRY Symmetry
INVARIANT TypeOK
INVARIANT RecordKeepsOwner
INVARIANT NoReversePair
PROPERTY OneRelationship
INVARIANT LoadedExactly
PROPERTY CreatedIsThere
CONSTRAINT Bound
