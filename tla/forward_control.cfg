SPECIFICATION Spec
CONSTANTS
  a = a
  b = b
  Devices = {a, b}
  Admins = {m1, m2}
  Ports = {80, 81}
  NoRow = NoRow
  Mixes <- MCMixes
  MaxRules = 3
INVARIANTS PortsDistinct RulesNameDevices
PROPERTIES AgentRunsRules TunnelShown 
CHECK_DEADLOCK FALSE
