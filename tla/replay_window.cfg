SPECIFICATION Spec
CONSTANTS
  WindowSize = 3
  MaxSeq = 6
 
PROPERTIES ImplementsAtMostOnce
CHECK_DEADLOCK FALSE
