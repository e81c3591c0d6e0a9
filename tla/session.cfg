SPECIFICATION LiveSpec
CONSTANTS
  p1 = p1 p2 = p2
  None = None Orphan = Orphan
  Procs <- TwoProcs
  Misreports = TRUE
  MaxKills = 1
  MaxStrays = 1
INVARIANTS TypeOK
PROPERTIES OwnServerTornDown ServiceNotices TerminationEnds
