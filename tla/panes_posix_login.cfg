SPECIFICATION Spec
CONSTANTS
  p1 = p1 p2 = p2
  None = None
  Names <- SomeNames
  Strings <- SomeStrings
  Arrays <- SomeArrays
  Procs <- TwoProcs
  Scenes <- PosixLogin
INVARIANTS PathAsserted
CHECK_DEADLOCK FALSE
