SPECIFICATION Spec
CONSTANTS
  FrameKinds <- MCFrameKinds
  MaxFrames = 3
  MaxBytes = 4
  MaxPerPeer = 2
  MaxPerSession = 1
  TTL = 1
  BatchMax = 2
  MaxInputs = 3
INVARIANTS  TrimDropsWorst
PROPERTIES LossNeedsDisturbance FramesLeave
CHECK_DEADLOCK FALSE
