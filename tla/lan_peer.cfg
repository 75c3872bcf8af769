SPECIFICATION FairSpec
CONSTANTS
  Device = {d}
  RotateAfter = 3
  MaxLoops = 2
  MaxOpening = 2
INVARIANTS  NeverStranded 
PROPERTIES PathRecurs
