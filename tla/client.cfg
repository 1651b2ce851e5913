CONSTANTS
    Calls = {a, b}
    MaxPairs = 2
    MaxUpsets = 1
SPECIFICATION FairClientSpec
INVARIANTS
    ClientInv
PROPERTIES
    ScreensHaveSession
    PasswordFirst
    ExpiresOnce
    CallsEnd
    StartsUp
