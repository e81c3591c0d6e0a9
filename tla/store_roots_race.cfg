SPECIFICATION Spec
CONSTANTS
  p1 = p1 p2 = p2 s1 = s1 s2 = s2 bad = bad d1 = d1
  flake = flake branch = branch path = path dir = dir
  None = None
  Procs <- TwoProcs
  Installables <- FewInstallables
  Prebuilt = {}
  Realizes <- FewRealizes
  StoreTargets <- AllStore
  PlainTargets = {}
  Sound <- FewSound
  Desired = flake
INVARIANTS RootsRetainAtRest
