SPECIFICATION Spec
CONSTANTS
    Hosts = {"a", "b"}
    Requests = {"r"}
    Tabs = {t1, t2}
    None = 0
    MaxLogins = 3
    MaxStarts = 1
    Callers = {c1, c2}
    Ids = {1, 2, 3, 4, 5}
    Pool = 2
    MaxExpiries = 1
    MaxChanges = 1
INVARIANT WebHolds
PROPERTY WebLive
CHECK_DEADLOCK FALSE
