SPECIFICATION LiveSpec
CONSTANTS
  p1 = p1 p2 = p2
  None = None
  Procs <- TwoProcs
  MaxRemovals = 1
INVARIANTS TypeOK OneIdentity
PROPERTIES KeyMaterialKept ReplacedInARaceOnly Settles
CHECK_DEADLOCK FALSE
