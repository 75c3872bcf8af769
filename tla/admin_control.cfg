SPECIFICATION Spec
CONSTANTS
  info = info
  u1 = u1
  u2 = u2
  Slots = {s1, s2}
  Consoles = {c1}
  Passwords = {p1, p2}
  Initial = p1
  Packages = {u1, u2}
  Installer = Installer
  Site = Site
  Keys <- MCKeys
  Kind <- MCKind
  Offered <- MCOffered
  Shortest = 10
  Defaults <- MCDefaults
  Legacies <- MCLegacies
  Empty = Empty
  NoRow = NoRow
  Mixes <- MCMixes
INVARIANTS StoredMatchesMemory RotatedOnce 
PROPERTIES SettingsKept LoginEndsWithPassword RevokedGivesNothing
CHECK_DEADLOCK FALSE
