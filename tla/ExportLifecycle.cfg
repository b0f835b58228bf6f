SPECIFICATION SpecH
CONSTANTS
  OwnIds = {a, b}
  ForeignIds = {f}
  Vals = {v}
  NoInst = NoInst
  NoOp = NoOp
  MaxErrors = 1
  MaxLost = 0
  MaxForeign = 1
  MaxExports = 1
  MaxServices = 2
  MaxPodChanges = 1
  MaxReadErrors = 0
  MaxRestarts = 0
  Importer = FALSE
  InformerLag = FALSE
SYMMETRY SymmetricIds
INVARIANTS
  TypeOK
  FinalizerHeldOrNoticed
  CleanedUpUnlessOverlooked
  ForeignUntouched
  RestMeansExportedUnlessOverlooked
