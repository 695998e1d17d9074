SPECIFICATION MCSpec
CONSTANTS
    Workers = {w1}
    Users = {u1, u2}
    NoWorker = NoWorker
    Params = {p, q}
    MaxCalls = 2
    MaxEdits = 1
    MaxDeaths = 0
    MaxLost = 0
    Parts = {"job"}
    Schedules = {s1}
    Reporters = {r1}
    Requests = {}
    DeliveryTimes = {2}
    Until = 4
    MaxRequests = 0
    MaxListed = 1
    MaxChanges = 0
    MaxFaults = 0
PROPERTIES EditsSpareProcessing
CHECK_DEADLOCK FALSE
