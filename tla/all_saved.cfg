CONSTANTS
    None = None
    Screens = {s1, s2}
    Queues = {k1, k2}
    Values = {a, b}
    MaxInputs = 2
SPECIFICATION Spec
SYMMETRY ScreensQueues
CHECK_DEADLOCK FALSE
INVARIANTS
    AllSavedMeansIdle
