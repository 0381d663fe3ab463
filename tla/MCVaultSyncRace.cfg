SPECIFICATION FairSpec
CONSTANTS
    Fields = {"job", "linkedin"}
    Values = {"a", "b"}
    Blank = Blank
    EditAt = {"idle", "fetch", "project", "plan", "put"}
    MaxEdits = 1
    MaxUpdates = 2
    MaxFaults = 0
PROPERTIES
    EveryEditIsRead
