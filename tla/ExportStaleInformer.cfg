SPECIFICATION Spec
CONSTANTS
  OwnIds = {a}
  ForeignIds = {}
  Vals = {v}
  NoInst = NoInst
  NoOp = NoOp
  MaxErrors = 0
  MaxLost = 0
  MaxForeign = 0
  MaxExports = 1
  MaxServices = 2
  MaxPodChanges = 1
  MaxReadErrors = 0
  MaxRestarts = 0
  Importer = FALSE
  InformerLag = TRUE
INVARIANTS
  FinalizerHeld
