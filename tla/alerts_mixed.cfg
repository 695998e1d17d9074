SPECIFICATION MCFairSpec
CONSTANTS
  snmp1 = snmp1
  snmp2 = snmp2
  trap1 = trap1
  trap2 = trap2
  u1 = u1
  u2 = u2
  NoOne = NoOne
  Evaluators = {snmp1, trap1}
  SnmpPolls = {snmp1}
  Users = {u1}
  HasDuration = TRUE
  MaxAlerts = 6
  MaxFlips = 2
  MaxCalls = 1
  MaxDeaths = 1
INVARIANTS
  TypeOK
  OneActivePerLane
PROPERTIES
  EngineRespectsTerminal
  QuietEventually
  RaisesEventually
