CONSTANTS
    Devices = {d1}
    Clients = {c1, c2}
    Sessions = {s1, s2, s3}
    Passwords = {p1, p2}
    None = None
    MaxFailed = 2
    LockTime = 1
    Ttl = 1
    MaxTime = 1
    MaxAuth = 2
    Ops = {"login", "refresh", "logout", "password", "activate", "deactivate", "reissue", "update"}
SPECIFICATION SessionsSpec
INVARIANTS OneChainPerLogin LiveIsCurrent
PROPERTIES
    Answered
    LockoutHolds
    RevokedForever
