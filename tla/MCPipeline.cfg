SPECIFICATION FairSpec
CONSTANTS
    Procs = {"serve", "api"}
    Role <- ServeAndApi
    Cells = {"job"}
    Notable = {"job"}
    Sources = {"obsidian", "google"}
    Drafts <- MCDrafts
    Values = {"Berlin", "Munich"}
    Times = {1}
    Sinks = {"console"}
    Trust <- MCTrust
    Canon <- MCCanon
    NoValue = NoValue
    Exclusive = FALSE
    MaxObs = 3
    MaxActs = 1
    MaxFaults = 1
INVARIANTS
    TypeOK
    FlipsRunForward
    SentAgainOnlyAfterFault
PROPERTIES
    Converges
    EventuallyDelivered
