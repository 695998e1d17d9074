SPECIFICATION MCSpec
CONSTANTS
    Workers = {w1}
    Users = {}
    NoWorker = NoWorker
    Params = {p}
    MaxCalls = 0
    MaxEdits = 0
    MaxDeaths = 0
    MaxLost = 0
    Parts = {"schedule"}
    Schedules = {s1, s2}
    Reporters = {r1}
    Requests = {}
    DeliveryTimes = {0, 2}
    Until = 8
    MaxRequests = 0
    MaxListed = 1
    MaxChanges = 0
    MaxFaults = 0
INVARIANTS NothingLeft
CHECK_DEADLOCK FALSE
