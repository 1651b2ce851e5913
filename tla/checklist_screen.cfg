CONSTANTS
    None = None
    Screens = {s1, s2}
    Queues = {k1, k2}
    Values = {a, b}
    MaxInputs = 3
    Dates = {d1, d2}
    Choices = {c1, c2}
    NoDate = nodate
    NoChoice = nochoice
    MaxRevisions = 2
    MaxLoads = 2
    Items = {i1, i2}
    Categories = {g0, g1, g2}
    CommonCategory = g0
    Names = {n0, n1, n2}
    Stock = 1
SPECIFICATION ChecklistScreenSpec
CHECK_DEADLOCK FALSE
INVARIANTS
    SavedIsStored
    InputKept
    DayInv
    CompleteMeansReady
    ProgressSound
PROPERTIES
    NoBlindOverwrite
    ImplementsRegister
    Settles
    WarnedBeforeLoss
    ChangesWhatWasShown
