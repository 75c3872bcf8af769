SPECIFICATION SharedSpec
CONSTANTS
  WindowSize = 2
  MaxSeq = 2
  Readers = {poller, readLoop}
INVARIANT OpenedAtMostOnce
CHECK_DEADLOCK FALSE
