CONSTANTS
    Devices = {d1}
    Clients = {c1, c2}
    Sessions = {s1, s2}
    Passwords = {p1}
    None = None
    MaxFailed = 2
    LockTime = 1
    Ttl = 1
    MaxTime = 0
    MaxAuth = 1
    Ops = {"login", "refresh", "logout"}
SPECIFICATION Spec
PROPERTIES
    LogoutEndsLogin
