SPECIFICATION FairSpec
CONSTANTS
    Procs = {"serve", "sync"}
    Role <- ServeAndCli
    Cells = {"job"}
    Notable = {"job"}
    Sources = {"obsidian", "google"}
    Drafts <- MCDrafts
    Values = {"Berlin", "Munich"}
    Times = {1}
    Sinks = {"console"}
    Trust <- MCTrust
    Canon <- MCCanon
    NoValue = NoValue
    Exclusive = TRUE
    MaxObs = 2
    MaxActs = 1
    MaxFaults = 0
PROPERTIES
    NewsGetsOut
