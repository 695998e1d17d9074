SPECIFICATION MCSpec
CONSTANTS
  mail = mail
  NoNotif = NoNotif
  Notifs <- MCNotifs
  Workers = {w1, w2}
  Channel <- OnlyMail
  SlowChannels <- Untimed
  MaxRetries = 1
  MaxOps = 2
  Rules = {r1}
  Evaluators = {e1, e2}
  Writers = {c1}
  MaxVersions = 3
  MaxFaults = 1
  Slots = {t1, t2}
  NoSlot = NoSlot
  MaxAlerts = 3
  MaxTraps = 3
  MaxMishaps = 1
  Users = {u1, u2}
  Policies = {p1, p2}
  AckPolicies = {p1}
  Notifiers = {n1, n2}
  MaxRuns = 3
  MaxBreaks = 1
INVARIANTS
  SentWasDelivered
  NotAbandoned
  TrapsCounted
  DoublesExplained
  TrapsConverge
  EveryoneTold
  NobodyToldTwice
PROPERTIES
  LookupsComplete
CHECK_DEADLOCK FALSE
