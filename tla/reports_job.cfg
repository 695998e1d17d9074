SPECIFICATION MCFairSpec
CONSTANTS
    Workers = {w1, w2}
    Users = {u1, u2}
    NoWorker = NoWorker
    Params = {p, q}
    MaxCalls = 4
    MaxEdits = 1
    MaxDeaths = 1
    MaxLost = 1
    Parts = {"job", "schedule", "contents"}
    Schedules = {s1}
    Reporters = {r1}
    Requests = {a1, a2}
    DeliveryTimes = {0, 1}
    Until = 9
    MaxRequests = 2
    MaxListed = 1
    MaxChanges = 1
    MaxFaults = 1
INVARIANTS TypeOK RowLegal DownloadWorks WindowsCovered DoubledByRewind ReportsRight
PROPERTIES CancelStops GenerationEnds
CHECK_DEADLOCK FALSE
