SPECIFICATION Spec
CONSTANTS
    Calls = {serve, tui}
    Prints = {A, B}
    Ids = {i, j}
    Notes = {news}
    Sinks = {console, telegram}
SYMMETRY MCSymmetry
INVARIANTS
    FailsOnlyIfOvertaken
PROPERTIES
    ImplementsMemory
