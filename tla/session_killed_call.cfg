SPECIFICATION Spec
CONSTANTS
  p1 = p1 p2 = p2
  None = None Orphan = Orphan
  Procs <- TwoProcs
  Misreports = FALSE
  MaxKills = 0
  MaxStrays = 1
PROPERTIES KilledCallIsNoEvidence
