CONSTANTS
  devA = devA
  devB = devB
  devC = devC
  noDev = noDev
  Self <- devA
  Peers <- MCPeers
  NoDevice <- noDev
  Configs <- MCConfigs
  Packets <- MCPackets
  Limit = 2
  PollMax = 1
  WindowSize = 2
  MaxSeq = 4
  MaxPackets = 2
  MaxEvents = 2
SPECIFICATION Spec

  
  
  
PROPERTY QueueDrains
CHECK_DEADLOCK FALSE
