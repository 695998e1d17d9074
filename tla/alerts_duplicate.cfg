SPECIFICATION Spec
CONSTANTS
  snmp1 = snmp1
  snmp2 = snmp2
  trap1 = trap1
  trap2 = trap2
  NoOne = NoOne
  u1 = u1
  u2 = u2
  Evaluators = {trap1, trap2}
  SnmpPolls = {}
  Users = {u1}
  HasDuration = FALSE
  MaxAlerts = 3
  MaxFlips = 2
  MaxCalls = 0
  MaxDeaths = 0
INVARIANTS
  SingleActive
