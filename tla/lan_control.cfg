SPECIFICATION Spec
CONSTANTS
  a = a
  b = b
  g = g
  Devices = {a, b}
  Groups = {g}
  Late = {x}
  NoHost = NoHost
  NoRow = NoRow
  CIDRs <- MCCIDRs
  Default <- MCDefault
  Names <- MCNames
  RuleEnds <- MCRuleEnds
  Mixes <- MCMixes
  Patched <- MCPatched
  MaxLate = 3
  MaxFaults = 1
INVARIANTS HeldAddressStored AddressesUsable EventLogFollowsState
PROPERTIES StandingRulesAnswered 
CHECK_DEADLOCK FALSE
