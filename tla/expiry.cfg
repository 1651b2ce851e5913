CONSTANTS
    Calls = {a, b}
    MaxPairs = 2
    MaxUpsets = 0
SPECIFICATION FairClientSpec
PROPERTIES
    ExpiryMeansRefreshFailed
