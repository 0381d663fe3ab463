SPECIFICATION Spec
CONSTANTS
    Procs = {"serve", "tui"}
    Role <- ServeAndTui
    Cells = {"job"}
    Notable = {"job"}
    Sources = {"obsidian", "google"}
    Drafts <- MCDrafts
    Values = {"Berlin", "Munich"}
    Times = {1}
    Sinks = {"console"}
    Trust <- MCTrust
    Canon <- MCCanon
    NoValue = NoValue
    Exclusive = TRUE
    MaxObs = 4
    MaxActs = 1
    MaxFaults = 0
INVARIANTS
    DismissedStaysAway
