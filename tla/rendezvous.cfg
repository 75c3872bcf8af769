SPECIFICATION FairSpec
CONSTANTS
  Slots <- AgentSlots
  Sockets <- AgentSockets
  Addrs = {"a1", "a2", "b1"}
  NoAddr = "none"
  PeerTTL = 0
  PairTTL = 1
  RelayIdle = 0
  StoreErrors = TRUE
INVARIANTS  PairedSlotsInformed
PROPERTIES Drains
