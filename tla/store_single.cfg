SPECIFICATION LiveSpec
CONSTANTS
  p1 = p1 p2 = p2 s1 = s1 s2 = s2 bad = bad d1 = d1
  flake = flake branch = branch path = path dir = dir
  None = None
  Procs <- OneProc
  Installables <- AllInstallables
  Prebuilt <- AllPrebuilt
  Realizes <- AllRealizes
  StoreTargets <- AllStore
  PlainTargets <- AllPlain
  Sound <- AllSound
  Desired = flake
INVARIANTS TypeOK RootsRetain
PROPERTIES RecordsTheActive BacksUpBeforeSwitch Converges
