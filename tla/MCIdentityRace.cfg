SPECIFICATION Spec
CONSTANTS
    email = email
    uid = uid
    e1 = e1
    e2 = e2
    e3 = e3
    e4 = e4
    p1 = p1
    p2 = p2
    p3 = p3
    Procs = {p1, p2}
    Entities <- MCEntities
    Idents <- MCIdents
    Records <- MCRecords
    Rank <- MCRank
    NoEntity = NoEntity
    MaxRuns = 4
SYMMETRY Symmetry
INVARIANT SameKeysSameEntity
CHECK_DEADLOCK FALSE
