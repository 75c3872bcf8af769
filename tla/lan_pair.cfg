SPECIFICATION PairSpec
CONSTANTS
  Device = {l, d}
  Listener = l
  Dialer = d
  MaxInFlight = 3
  RotateAfter = 0
  MaxLoops = 1
  MaxOpening = 1
INVARIANTS ReadyBothWays
