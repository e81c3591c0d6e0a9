SPECIFICATION Spec
CONSTANTS
  p1 = p1 p2 = p2
  None = None
  Names <- SomeNames
  Strings <- SomeStrings
  Arrays <- SomeArrays
  Procs <- TwoProcs
  Scenes <- AllScenes
INVARIANTS TypeOK ReadyMeansComplete LauncherGoverns ServedConfigGoverns MergeKeepsUser PaneReady
PROPERTIES NoSideEffects OwnConfigStable
CHECK_DEADLOCK FALSE
