SPECIFICATION FairSpec
CONSTANTS
    Fields = {"job", "linkedin"}
    Values = {"a", "b"}
    Blank = Blank
    EditAt = {"idle", "fetch", "project", "plan", "put"}
    MaxEdits = 3
    MaxUpdates = 2
    MaxFaults = 1
INVARIANTS
    TypeOK
    NoEcho
PROPERTIES
    NoClobber
    FollowsGoogle
    EditsAreRead
    KnownIsFilled
