SPECIFICATION LiveSpec
CONSTANTS
  p1 = p1 q1 = q1 q2 = q2
  None = None Foreign = Foreign Stale = Stale Orphan = Orphan
  Procs <- OneProc
  Ports <- TwoPorts
  MaxTries = 5
  MaxAttempt = 6
  MaxKills = 1
INVARIANTS TypeOK DelaysBounded
PROPERTIES NothingLeftBehind StartEnds SSHDExitFails TerminationEnds Reconnects
