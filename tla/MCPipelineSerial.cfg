SPECIFICATION Spec
CONSTANTS
    Procs = {"serve", "sync", "tui"}
    Role <- AllThree
    Cells = {"job"}
    Notable = {"job"}
    Sources = {"obsidian", "google"}
    Drafts <- MCDrafts
    Values = {"Berlin", "Munich"}
    Times = {1}
    Sinks = {"console"}
    Trust <- MCTrust
    Canon <- MCCanon
    NoValue = NoValue
    Exclusive = TRUE
    MaxObs = 4
    MaxActs = 2
    MaxFaults = 1
INVARIANTS
    FreshWhenIdle
PROPERTIES
    AckedNeverNotified
    Refinement
